---- MODULE Spec2Model ----
(***************************************************************************)
(* Verification model of the capnpc-abstract schema-compiler backends:     *)
(*   - the C++ backend's dependency orderer (cpp/codegen/header.rs),       *)
(*   - the C++ backend's translator (cpp/translator.rs),                   *)
(*   - the Rust backend's translator and reference resolver (rust/ast.rs). *)
(* Every function of the pipeline is pure; the specifications below draw   *)
(* their inputs in Init and apply the functions in their actions.          *)
(***************************************************************************)
EXTENDS Integers, Sequences, FiniteSets, TLC

(***************************************************************************)
(* Bounds of the model.                                                    *)
(***************************************************************************)
\* number of sibling TypeDefs in the namespace whose types are ordered
NumDefs == 3
\* total number of fields over all sibling TypeDefs of that namespace
MaxRefs == 3
\* number of words of an identifier handed to Name::from
MaxWords == 3
\* number of calls of get_or_create_namespace_mut on one root Namespace
MaxCalls == 3

(***************************************************************************)
(* Generic helpers (Vec / Option / Result idioms of the source).           *)
(***************************************************************************)
Contains(s, x) == \E i \in 1..Len(s) : s[i] = x

IndexOf(s, x) == CHOOSE i \in 1..Len(s) : s[i] = x

Range(s) == {s[i] : i \in 1..Len(s)}

\* Option<T>
None == [some |-> FALSE]

Some(x) == [some |-> TRUE, v |-> x]

\* a computation that either returns the Vec v or panics (unwrap on None)
Ok(v) == [ok |-> TRUE, v |-> v]

Panic == [ok |-> FALSE, v |-> <<>>]

\* deps.extend(r) with a panic in r unwinding through the caller
Extend(a, b) == [ok |-> a.ok /\ b.ok, v |-> IF a.ok /\ b.ok THEN a.v \o b.v ELSE <<>>]

\* HashMap::insert
MapInsert(m, key, val) == [x \in (DOMAIN m) \cup {key} |-> IF x = key THEN val ELSE m[x]]

EmptyMap == [x \in {} |-> 0]

\* the results rs joined; a panic in one of them unwinds through the caller
RECURSIVE ConcatAll(_, _)
ConcatAll(rs, i) ==
    IF i > Len(rs) THEN Ok(<<>>) ELSE Extend(rs[i], ConcatAll(rs, i + 1))

\* iter().map(F) with the results joined
FlatMap(F(_), s) == ConcatAll([i \in 1..Len(s) |-> F(s[i])], 1)

\* a sequence of results as the result of the sequence
Collect(rs) ==
    IF \A i \in 1..Len(rs) : rs[i].ok THEN Ok([i \in 1..Len(rs) |-> rs[i].v]) ELSE Panic

(***************************************************************************)
(* C++ backend AST (cpp/ast.rs).  A Name of that AST is compared by its    *)
(* tokens only in the orderer, so it is an opaque value here.              *)
(***************************************************************************)
CppInt == [k |-> "Int"]

CppRefId(id) == [k |-> "RefId", id |-> id]

CppVector(t) == [k |-> "Vector", t |-> t]

CppField(name, cpp_type) == [name |-> name, cpp_type |-> cpp_type]

UnnamedUnion(id, fields) == [id |-> id, fields |-> fields]

Class(id, name, inner_types, union, fields) ==
    [kind |-> "Class", id |-> id, name |-> name, inner_types |-> inner_types,
     union |-> union, fields |-> fields]

EnumClass(id, name, enumerants) ==
    [kind |-> "EnumClass", id |-> id, name |-> name, enumerants |-> enumerants]

Namespace(defs, namespaces) == [defs |-> defs, namespaces |-> namespaces]

\* FullyQualifiedName::parent
parent(fqn) == IF Len(fqn) = 0 THEN <<>> ELSE SubSeq(fqn, 1, Len(fqn) - 1)

\* FullyQualifiedName::with_appended
with_appended(fqn, name) == Append(fqn, name)

\* is_prefixed_by with a loop that stops after the first name
is_prefixed_by_first_name_only(self, prefix) ==
    IF Len(self) < Len(prefix) THEN FALSE
    ELSE \A idx \in 1..(IF Len(prefix) > 0 THEN 1 ELSE 0) : self[idx] = prefix[idx]

\* FullyQualifiedName::is_prefixed_by
is_prefixed_by(self, prefix) ==
    IF Len(self) < Len(prefix) THEN FALSE
    ELSE \A idx \in 1..Len(prefix) : self[idx] = prefix[idx]

(***************************************************************************)
(* codegen::Context::type_info (cpp/codegen/mod.rs).                       *)
(***************************************************************************)
TypeInfo(name, fqn, cpp_type) == [name |-> name, fqn |-> fqn, kind |-> cpp_type.kind]

RECURSIVE set_type_info_from_complex_type_def(_, _, _)
RECURSIVE set_type_info_from_inner_types(_, _, _, _)
set_type_info_from_inner_types(info, fqn, ts, i) ==
    IF i > Len(ts) THEN info
    ELSE set_type_info_from_inner_types(
             set_type_info_from_complex_type_def(info, fqn, ts[i]), fqn, ts, i + 1)

set_type_info_from_complex_type_def(info, fqn, t) ==
    IF t.kind = "EnumClass"
    THEN MapInsert(info, t.id, TypeInfo(t.name, with_appended(fqn, t.name), t))
    ELSE set_type_info_from_inner_types(
             MapInsert(info, t.id, TypeInfo(t.name, with_appended(fqn, t.name), t)),
             with_appended(fqn, t.name), t.inner_types, 1)

RECURSIVE set_type_info_from_namespace(_, _, _)
RECURSIVE set_type_info_from_child_namespaces(_, _, _, _)
\* the child namespaces are a HashMap; with unique ids the result does not
\* depend on the order in which they are visited
set_type_info_from_child_namespaces(info, fqn, n, todo) ==
    IF todo = {} THEN info
    ELSE LET name == CHOOSE x \in todo : TRUE
         IN set_type_info_from_child_namespaces(
                set_type_info_from_namespace(info, with_appended(fqn, name), n.namespaces[name]),
                fqn, n, todo \ {name})

set_type_info_from_namespace(info, fqn, n) ==
    set_type_info_from_child_namespaces(
        set_type_info_from_inner_types(info, fqn, n.defs, 1), fqn, n, DOMAIN n.namespaces)

\* Context::set_type_info_from_file on the compilation unit's root namespace
set_type_info_from_file(root_ns) == set_type_info_from_namespace(EmptyMap, <<>>, root_ns)

\* Namespace::get_namespace
RECURSIVE get_namespace(_, _)
get_namespace(ns, name) ==
    IF Len(name) = 0 THEN Some(ns)
    ELSE IF name[1] \in DOMAIN ns.namespaces
         THEN get_namespace(ns.namespaces[name[1]], Tail(name))
         ELSE None

(***************************************************************************)
(* Dependency lists (cpp/codegen/header.rs).                               *)
(***************************************************************************)
RECURSIVE generate_all_types_used_by_cpp_type(_, _)
generate_all_types_used_by_cpp_type(info, cpp_type) ==
    IF cpp_type.k = "RefId"
    THEN IF cpp_type.id \in DOMAIN info THEN Ok(<<info[cpp_type.id].fqn>>) ELSE Panic
    ELSE IF cpp_type.k = "Vector"
         THEN generate_all_types_used_by_cpp_type(info, cpp_type.t)
         ELSE Ok(<<>>)

\* the loop over the union payload looks at a direct RefId only
RECURSIVE generate_all_types_used_by_type(_, _)
generate_all_types_used_by_type(info, def) ==
    IF def.id \notin DOMAIN info THEN Panic
    ELSE Extend(
           IF def.kind = "Class"
           THEN Extend(FlatMap(LAMBDA f : generate_all_types_used_by_cpp_type(info, f.cpp_type),
                               def.fields),
                  Extend(FlatMap(LAMBDA t : generate_all_types_used_by_type(info, t),
                                 def.inner_types),
                         IF def.union.some
                         THEN FlatMap(LAMBDA f : IF f.cpp_type.k = "RefId"
                                                 THEN IF f.cpp_type.id \in DOMAIN info
                                                      THEN Ok(<<info[f.cpp_type.id].fqn>>)
                                                      ELSE Panic
                                                 ELSE Ok(<<>>),
                                      def.union.v.fields)
                         ELSE Ok(<<>>)))
           ELSE Ok(<<>>),
           Ok(<<info[def.id].fqn>>))

\* the dependency list without the filter on the number of names
generate_dependency_list_for_type_without_length_filter(info, def) ==
    IF def.id \notin DOMAIN info THEN Panic
    ELSE LET def_path == parent(info[def.id].fqn)
             used     == generate_all_types_used_by_type(info, def)
             kept     == SelectSeq(used.v, LAMBDA fqn : is_prefixed_by(fqn, def_path))
         IN IF ~used.ok THEN Panic
            ELSE Ok([i \in 1..Len(kept) |-> kept[i][Len(kept[i])]])

generate_dependency_list_for_type(info, def) ==
    IF def.id \notin DOMAIN info THEN Panic
    ELSE LET def_fqn  == info[def.id].fqn
             def_path == parent(def_fqn)
             used     == generate_all_types_used_by_type(info, def)
             kept     == SelectSeq(used.v, LAMBDA fqn :
                             is_prefixed_by(fqn, def_path) /\ Len(fqn) = Len(def_fqn))
         IN IF ~used.ok THEN Panic
            ELSE Ok([i \in 1..Len(kept) |-> kept[i][Len(kept[i])]])


(***************************************************************************)
(* State.                                                                  *)
(***************************************************************************)
VARIABLES
    pc,                       \* position of the run
    \* -- the type order of one namespace (codegen_namespace_contents) --
    root,                     \* CompilationUnit::namespace, the AST handed to codegen
    type_info,                \* codegen::Context::type_info
    current_namespace,        \* codegen::Context::current_namespace
    type_dependencies,        \* HashMap<&Name, Vec<Name>> of codegen_namespace_contents
    sorted_type_dependencies, \* dst of the calls of line 421
    call_stack,               \* active calls of insert_names_sorted_by_dependencies
    def_idx,                  \* position of the loop of line 420
    sorted_types,             \* Vec<&ComplexTypeDef> of line 424
    \* -- codegen over a whole CppAst (cpp/codegen/mod.rs) --
    ast,                      \* the CppAst handed to codegen
    ctx,                      \* codegen::Context (type_info, capnp_names)
    hash_order,               \* iteration order of each Namespace::namespaces HashMap
    unit,                     \* position of the loop of codegen, line 161
    frames,                   \* active calls of header.rs codegen_namespace_contents
    header_contents,          \* the header text of the current compilation unit
    files,                    \* Code::files being filled by codegen
    \* -- the translators (rust/mod.rs translate, cpp/translator.rs) --
    cgr,                      \* the CodeGeneratorRequest handed to the backend
    translated,               \* rust/mod.rs translate, line 8
    resolution_context,       \* rust/mod.rs translate, line 10
    resolved,                 \* rust/mod.rs translate, line 12
    cpp_ctx,                  \* translator::Context (names, children, nodes)
    cpp_def,                  \* the ComplexTypeDef made of the Struct node
    cpp_root,                 \* root of generate_base_ast
    file_idx,                 \* position of the loop of generate_base_ast
    \* -- Name and Namespace of cpp/ast.rs, used the way their tests do --
    identifier_words,         \* the words of the identifier handed to Name::from
    made_name,                \* the Name made of the identifier
    rendered,                 \* the case asked for and the String returned
    test_namespace,           \* the root Namespace, n of test_namespace
    requested_paths,          \* the paths handed to get_or_create_namespace_mut
    listed,                   \* what list_namespaces and contains_namespace returned
    prefix_test,              \* the receiver and the argument of is_prefixed_by
    prefixed,                 \* what is_prefixed_by returned
    aborted_in                \* the step that panicked, "" while none has

order_vars == <<root, type_info, current_namespace, type_dependencies,
                sorted_type_dependencies, call_stack, def_idx, sorted_types>>

codegen_vars == <<ast, ctx, hash_order, unit, frames, header_contents, files>>

translation_vars == <<cgr, translated, resolution_context, resolved, cpp_ctx, cpp_def,
                      cpp_root, file_idx>>

library_vars == <<identifier_words, made_name, rendered, test_namespace, requested_paths,
                  listed, prefix_test, prefixed>>

vars == <<pc, aborted_in, order_vars, codegen_vars, translation_vars, library_vars>>

\* the variables of the type order, while another computation runs
IdleOrder ==
    /\ root = <<>>
    /\ type_info = <<>>
    /\ current_namespace = <<>>
    /\ type_dependencies = <<>>
    /\ sorted_type_dependencies = <<>>
    /\ call_stack = <<>>
    /\ def_idx = 0
    /\ sorted_types = <<>>

\* the variables of codegen, while another computation runs
IdleCodegen ==
    /\ ast = <<>>
    /\ ctx = <<>>
    /\ hash_order = <<>>
    /\ unit = 0
    /\ frames = <<>>
    /\ header_contents = <<>>
    /\ files = <<>>

\* the variables of the translators, while another computation runs
IdleTranslation ==
    /\ cgr = <<>>
    /\ translated = <<>>
    /\ resolution_context = <<>>
    /\ resolved = <<>>
    /\ cpp_ctx = <<>>
    /\ cpp_def = <<>>
    /\ cpp_root = <<>>
    /\ file_idx = 0

\* the variables of Name and Namespace, while another computation runs
IdleLibrary ==
    /\ identifier_words = <<>>
    /\ made_name = <<>>
    /\ rendered = <<>>
    /\ test_namespace = <<>>
    /\ requested_paths = <<>>
    /\ listed = <<>>
    /\ prefix_test = <<>>
    /\ prefixed = <<>>

(***************************************************************************)
(* Inputs of the type orderer: a compilation unit with the namespaces N    *)
(* and M; N holds NumDefs sibling classes with at most MaxRefs fields in   *)
(* all, M holds the class X.                                               *)
(***************************************************************************)
OtherId == 11

ClassX == Class(OtherId, "X", <<>>, None, <<>>)

\* the class R of the root namespace and the class Y of the namespace N::K
RootTypeId == OtherId + 1

NestedTypeId == OtherId + 2

\* the class Inner of the sibling i and the class Innermost inside it
InnerId(i) == 20 + i

InnermostId(i) == 30 + i

\* the fields of all siblings, as (owner, type, place) triples grouped by owner;
\* the place is the fields of the class, its union payload, its inner class
\* or the inner class of that one
FieldPlacements ==
    LET SiblingIds == 1..NumDefs
        Placed ==
            ({CppInt, CppRefId(OtherId), CppVector(CppRefId(1)), CppRefId(2), CppRefId(3),
              CppRefId(RootTypeId), CppRefId(NestedTypeId), CppRefId(InnerId(1))}
                 \X {"fields"})
            \cup ({CppRefId(2), CppVector(CppRefId(1))} \X {"union"})
            \cup ({CppRefId(3)} \X {"inner"})
            \cup ({CppVector(CppVector(CppRefId(1)))} \X {"innermost"})
    IN UNION {{fs \in [1..n -> {<<o, tp[1], tp[2]>> : o \in SiblingIds, tp \in Placed}] :
                  \A i \in 1..n, j \in 1..n : i < j => fs[i][1] <= fs[j][1]} : n \in 0..MaxRefs}

\* the compilation unit whose fields are placed as fs says
OrderRoot(fs) ==
    LET DefNames == <<"A", "B", "C", "D", "E">>
        FieldNames == <<"p", "q", "r", "s", "t", "u">>
        FieldsOf(owner, place) ==
            LET mine == SelectSeq([i \in 1..Len(fs) |-> <<fs[i][1], fs[i][2], i, fs[i][3]>>],
                                  LAMBDA e : e[1] = owner /\ e[4] = place)
            IN [i \in 1..Len(mine) |-> CppField(FieldNames[mine[i][3]], mine[i][2])]
        InnerClass(i) ==
            Class(InnerId(i), "Inner",
                  <<Class(InnermostId(i), "Innermost", <<>>, None, FieldsOf(i, "innermost"))>>,
                  None, FieldsOf(i, "inner"))
        UnionOf(i) ==
            IF FieldsOf(i, "union") = <<>> THEN None
            ELSE Some(UnnamedUnion(40 + i, FieldsOf(i, "union")))
        SiblingClasses ==
            [i \in 1..NumDefs |->
                Class(i, DefNames[i], <<InnerClass(i)>>, UnionOf(i), FieldsOf(i, "fields"))]
        ClassR == Class(RootTypeId, "R", <<>>, None, <<>>)
        ClassY == Class(NestedTypeId, "Y", <<>>, None, <<>>)
    IN Namespace(<<ClassR>>, [n \in {"N", "M"} |->
           IF n = "N"
           THEN Namespace(SiblingClasses, [k \in {"K"} |-> Namespace(<<ClassY>>, EmptyMap)])
           ELSE Namespace(<<ClassX>>, EmptyMap)])

\* namespace.defs() of the namespace being generated
NamespaceDefs == get_namespace(root, current_namespace).v.defs

InitOrder ==
    /\ pc = "type_deps"
    /\ \E fs \in FieldPlacements : root = OrderRoot(fs)
    /\ type_info = set_type_info_from_file(root)
    /\ current_namespace = <<"N">>
    /\ type_dependencies = EmptyMap
    /\ sorted_type_dependencies = <<>>
    /\ call_stack = <<>>
    /\ def_idx = 1
    /\ sorted_types = <<>>
    /\ aborted_in = ""
    /\ IdleCodegen
    /\ IdleTranslation
    /\ IdleLibrary

(***************************************************************************)
(* codegen_namespace_contents, lines 413-431: the type order.              *)
(***************************************************************************)
RECURSIVE insert_type_dependencies(_, _, _, _)
insert_type_dependencies(map, info, defs, i) ==
    IF i > Len(defs) THEN map
    ELSE insert_type_dependencies(
             MapInsert(map, defs[i].name, generate_dependency_list_for_type(info, defs[i]).v),
             info, defs, i + 1)

\* lines 414-417
BuildTypeDependencies ==
    /\ pc = "type_deps"
    /\ IF \A i \in 1..Len(NamespaceDefs) :
              generate_dependency_list_for_type(type_info, NamespaceDefs[i]).ok
       THEN /\ type_dependencies' = insert_type_dependencies(EmptyMap, type_info, NamespaceDefs, 1)
            /\ pc' = "type_sort"
       ELSE /\ type_dependencies' = type_dependencies
            /\ pc' = "panic"
    /\ UNCHANGED <<root, type_info, current_namespace, sorted_type_dependencies,
                   call_stack, def_idx, sorted_types>>
    /\ UNCHANGED <<aborted_in, codegen_vars, translation_vars, library_vars>>

\* a call of insert_names_sorted_by_dependencies; i = 0 before the two
\* early returns, then the position in dep_list
Frame(name, queue) == [name |-> name, queue |-> queue, i |-> 0]

\* the guard that does not look at the current placement path
returns_early_without_queue(dst, name, queue) == Contains(dst, name)

\* the guard that does not look at the names already placed
returns_early_without_dst(dst, name, queue) == Contains(queue, name)

\* lines 355-363
returns_early(dst, name, queue) == Contains(dst, name) \/ Contains(queue, name)

\* the lookup of the dependency list always missing
dep_list_of_never_found(deps, name) == <<>>

\* lines 365-366 and 372
dep_list_of(deps, name) == IF name \in DOMAIN deps THEN deps[name] ELSE <<>>

Top == call_stack[Len(call_stack)]

Pop == SubSeq(call_stack, 1, Len(call_stack) - 1)

\* lines 420-421: the next top-level call, with an empty queue
CallForDef ==
    /\ pc = "type_sort"
    /\ call_stack = <<>>
    /\ def_idx <= Len(NamespaceDefs)
    /\ call_stack' = <<Frame(NamespaceDefs[def_idx].name, <<>>)>>
    /\ def_idx' = def_idx + 1
    /\ UNCHANGED <<pc, root, type_info, current_namespace, type_dependencies,
                   sorted_type_dependencies, sorted_types>>
    /\ UNCHANGED <<aborted_in, codegen_vars, translation_vars, library_vars>>

\* lines 355-363: already placed, or on the current placement path
InsertReturnEarly ==
    /\ pc = "type_sort"
    /\ call_stack # <<>>
    /\ Top.i = 0
    /\ returns_early(sorted_type_dependencies, Top.name, Top.queue)
    /\ call_stack' = Pop
    /\ UNCHANGED <<pc, root, type_info, current_namespace, type_dependencies,
                   sorted_type_dependencies, def_idx, sorted_types>>
    /\ UNCHANGED <<aborted_in, codegen_vars, translation_vars, library_vars>>

InsertEnter ==
    /\ pc = "type_sort"
    /\ call_stack # <<>>
    /\ Top.i = 0
    /\ ~returns_early(sorted_type_dependencies, Top.name, Top.queue)
    /\ call_stack' = [call_stack EXCEPT ![Len(call_stack)].i = 1]
    /\ UNCHANGED <<pc, root, type_info, current_namespace, type_dependencies,
                   sorted_type_dependencies, def_idx, sorted_types>>
    /\ UNCHANGED <<aborted_in, codegen_vars, translation_vars, library_vars>>

\* lines 367-371: the recursive call for the next dependency
InsertRecurse ==
    /\ pc = "type_sort"
    /\ call_stack # <<>>
    /\ Len(call_stack) < 2 * NumDefs + 4
    /\ Top.i >= 1
    /\ Top.i <= Len(dep_list_of(type_dependencies, Top.name))
    /\ call_stack' =
           Append([call_stack EXCEPT ![Len(call_stack)].i = @ + 1],
                  Frame(dep_list_of(type_dependencies, Top.name)[Top.i],
                        Append(Top.queue, Top.name)))
    /\ UNCHANGED <<pc, root, type_info, current_namespace, type_dependencies,
                   sorted_type_dependencies, def_idx, sorted_types>>
    /\ UNCHANGED <<aborted_in, codegen_vars, translation_vars, library_vars>>

\* lines 375-376
InsertPush ==
    /\ pc = "type_sort"
    /\ call_stack # <<>>
    /\ Top.i >= 1
    /\ Top.i > Len(dep_list_of(type_dependencies, Top.name))
    /\ sorted_type_dependencies' = Append(sorted_type_dependencies, Top.name)
    /\ call_stack' = Pop
    /\ UNCHANGED <<pc, root, type_info, current_namespace, type_dependencies,
                   def_idx, sorted_types>>
    /\ UNCHANGED <<aborted_in, codegen_vars, translation_vars, library_vars>>

\* lines 424-431
collect_sorted_types(names, defs) ==
    LET pairs == [k \in 1..(Len(names) * Len(defs)) |->
                     <<names[((k - 1) \div Len(defs)) + 1], defs[((k - 1) % Len(defs)) + 1]>>]
        hits  == SelectSeq(pairs, LAMBDA e : e[2].name = e[1])
    IN [k \in 1..Len(hits) |-> hits[k][2]]

CollectSortedTypes ==
    /\ pc = "type_sort"
    /\ call_stack = <<>>
    /\ def_idx > Len(NamespaceDefs)
    /\ sorted_types' = collect_sorted_types(sorted_type_dependencies, NamespaceDefs)
    /\ pc' = "done"
    /\ UNCHANGED <<root, type_info, current_namespace, type_dependencies,
                   sorted_type_dependencies, call_stack, def_idx>>
    /\ UNCHANGED <<aborted_in, codegen_vars, translation_vars, library_vars>>

NextOrder ==
    \/ BuildTypeDependencies
    \/ CallForDef
    \/ InsertReturnEarly
    \/ InsertEnter
    \/ InsertRecurse
    \/ InsertPush
    \/ CollectSortedTypes

SpecOrder == InitOrder /\ [][NextOrder]_vars


(***************************************************************************)
(* Properties of the type order.                                           *)
(***************************************************************************)
SiblingNames == {NamespaceDefs[i].name : i \in 1..Len(NamespaceDefs)}

\* the dependency list recorded for a name
DirectDeps(name) ==
    IF name \in DOMAIN type_dependencies THEN Range(type_dependencies[name]) ELSE {}

RECURSIVE ReachableFrom(_)
ReachableFrom(S) ==
    LET S2 == S \cup UNION {DirectDeps(n) : n \in S}
    IN IF S2 = S THEN S ELSE ReachableFrom(S2)

\* d depends on e through one or more dependency lists
TransitivelyDependsOn(d, e) == e \in ReachableFrom(DirectDeps(d))

EmittedNames == [i \in 1..Len(sorted_types) |-> sorted_types[i].name]

EmittedBefore(d, e) ==
    /\ Contains(EmittedNames, d)
    /\ Contains(EmittedNames, e)
    /\ \A i, j \in 1..Len(EmittedNames) :
           (EmittedNames[i] = d /\ EmittedNames[j] = e) => i < j

InputPosition(name) == CHOOSE i \in 1..Len(NamespaceDefs) : NamespaceDefs[i].name = name

\* C1: when the type order of a namespace has been computed, every sibling D
\* that is in the dependency list of a different sibling E and does not
\* transitively depend on E is emitted strictly before E.
C1_OrderingCorrect ==
    pc = "done" =>
        \A e \in SiblingNames, d \in SiblingNames :
            (d # e /\ d \in DirectDeps(e) /\ ~TransitivelyDependsOn(d, e))
                => EmittedBefore(d, e)

\* Scenario D with A first in the input: A{b: B}, B without references,
\* emitted as [B, A, ...]
C1_Witness ==
    /\ pc = "done"
    /\ DirectDeps("A") = {"A", "B"}
    /\ DirectDeps("B") = {"B"}
    /\ InputPosition("A") < InputPosition("B")
    /\ EmittedNames[1] = "B"
    /\ EmittedNames[2] = "A"

\* names that can appear in a call
AllNames == SiblingNames \cup UNION {DirectDeps(n) : n \in DOMAIN type_dependencies}

\* the calls that passed both early returns
ActiveFrames == {k \in 1..Len(call_stack) : call_stack[k].i >= 1}

RecursionBounded ==
    /\ \A k \in 1..Len(call_stack) : k < Len(call_stack) => k \in ActiveFrames
    /\ \A k, l \in ActiveFrames : k # l => call_stack[k].name # call_stack[l].name
    /\ \A k \in ActiveFrames : ~Contains(sorted_type_dependencies, call_stack[k].name)
    /\ Cardinality(ActiveFrames) <= Cardinality(AllNames)
    /\ Len(call_stack) <= Cardinality(AllNames) + 1

DepCount(name) ==
    IF name \in DOMAIN type_dependencies THEN Len(type_dependencies[name]) ELSE 0

\* a name that no call has placed or is placing
Unentered(n) ==
    /\ ~Contains(sorted_type_dependencies, n)
    /\ \A k \in 1..Len(call_stack) : call_stack[k].i >= 1 => call_stack[k].name # n

\* work left for the names no call has entered yet, from sibling j onwards
RECURSIVE UnenteredWork(_)
UnenteredWork(j) ==
    IF j > Len(NamespaceDefs) THEN 0
    ELSE (IF Unentered(NamespaceDefs[j].name)
          THEN 2 * DepCount(NamespaceDefs[j].name) + 2 ELSE 0)
         + UnenteredWork(j + 1)

\* work left for the calls on the stack, from frame k upwards
RECURSIVE StackWork(_)
StackWork(k) ==
    IF k > Len(call_stack) THEN 0
    ELSE (IF call_stack[k].i = 0 THEN 1
          ELSE 2 * (DepCount(call_stack[k].name) - call_stack[k].i + 1) + 1)
         + StackWork(k + 1)

\* work left: a variant of the placement loop
Rank == UnenteredWork(1) + StackWork(1) + 2 * (NumDefs + 1 - def_idx)

\* C2: the placement terminates for every dependency map, self-dependencies
\* and cycles included: a name on the current placement path or already
\* placed is never recursed into, so the calls that recurse have pairwise
\* distinct names and the depth is bounded by the number of names; every
\* step of the placement decreases the work left, so the run cannot go on
\* for ever.
C2_Terminates ==
    /\ [](RecursionBounded)
    /\ [][(pc = "type_sort" /\ pc' = "type_sort") => (Rank' < Rank /\ Rank' >= 0)]_vars

\* a three-entity cycle A -> B -> C -> A is cut when the call for A finds A
\* on the placement path
C2_Witness ==
    /\ call_stack # <<>>
    /\ Top.i = 0
    /\ Len(Top.queue) = 3
    /\ Top.name = Top.queue[1]
    /\ Top.name # Top.queue[3]

(***************************************************************************)
(* codegen over a whole CppAst (cpp/codegen/mod.rs).  Generated text is a  *)
(* sequence of tokens; the name of a type is one token, and the literal    *)
(* text of the templates is abbreviated.                                   *)
(***************************************************************************)
CompilationUnit(name, namespace, is_serde_file) ==
    [name |-> name, namespace |-> namespace, is_serde_file |-> is_serde_file]

\* Context::set_type_info_from, from the i-th compilation unit on
RECURSIVE set_type_info_from(_, _, _)
set_type_info_from(info, cpp_files, i) ==
    IF i > Len(cpp_files) THEN info
    ELSE set_type_info_from(
             set_type_info_from_namespace(info, <<>>, cpp_files[i].namespace),
             cpp_files, i + 1)

\* FullyQualifiedName::to_string
RECURSIVE fqn_to_string(_)
fqn_to_string(fqn) ==
    IF Len(fqn) = 0 THEN ""
    ELSE IF Len(fqn) = 1 THEN fqn[1]
         ELSE fqn[1] \o "::" \o fqn_to_string(Tail(fqn))

\* Context::resolve_full_name
resolve_full_name(info, id) ==
    IF id \in DOMAIN info THEN fqn_to_string(info[id].fqn)
    ELSE "ref<" \o ToString(id) \o ">"

RECURSIVE codegen_cpp_type(_, _)
codegen_cpp_type(info, t) ==
    IF t.k = "Int" THEN "int"
    ELSE IF t.k = "Vector" THEN "std::vector<" \o codegen_cpp_type(info, t.t) \o ">"
         ELSE resolve_full_name(info, t.id)

is_enum_class(info, t) ==
    IF t.k = "RefId"
    THEN IF t.id \in DOMAIN info THEN Ok(info[t.id].kind = "EnumClass") ELSE Panic
    ELSE Ok(FALSE)

is_complex_cpp_type(t) == t.k \in {"String", "Vector", "RefId"}

codegen_type_as_ref_if_complex(info, t) ==
    IF is_complex_cpp_type(t) THEN codegen_cpp_type(info, t) \o "&"
    ELSE codegen_cpp_type(info, t)

\* is_enum_class is only called for a complex type
codegen_type_as_rvalue_ref_if_complex(info, t) ==
    IF is_complex_cpp_type(t)
    THEN LET e == is_enum_class(info, t)
         IN IF ~e.ok THEN Panic
            ELSE IF ~e.v THEN Ok(<<codegen_cpp_type(info, t) \o "&&">>)
                 ELSE Ok(<<codegen_cpp_type(info, t)>>)
    ELSE Ok(<<codegen_cpp_type(info, t)>>)

\* the fields of a class with an unnamed union, without the field which
without_which(c) ==
    SelectSeq(c.fields, LAMBDA f : ~c.union.some \/ f.name # "which")

(***************************************************************************)
(* The header of a type (cpp/codegen/header.rs, lines 4-245).              *)
(***************************************************************************)
\* codegen_complex_type_definition with codegen_class and codegen_enum_class
RECURSIVE codegen_complex_type_definition(_, _)
codegen_complex_type_definition(info, def) ==
    LET codegen_enum_class(e) ==
            Ok(<<"enum class " \o e.name \o " {">> \o e.enumerants \o <<"};">>)
        codegen_field(f) == Ok(<<codegen_cpp_type(info, f.cpp_type), "_" \o f.name \o ";">>)
        codegen_constructor_prototype_fields(class_name, fields) ==
            Extend(Ok(<<class_name \o "(">>),
              Extend(FlatMap(LAMBDA f :
                                 Extend(codegen_type_as_rvalue_ref_if_complex(info, f.cpp_type),
                                        Ok(<<f.name>>)), fields),
                     Ok(<<");">>)))
        codegen_constructor_prototypes(c) ==
            IF c.union.some
            THEN FlatMap(LAMBDA u : codegen_constructor_prototype_fields(
                                        c.name, Append(c.fields, u)),
                         c.union.v.fields)
            ELSE codegen_constructor_prototype_fields(c.name, c.fields)
        codegen_union_field(u) ==
            Ok(<<"std::variant<">>
               \o [i \in 1..Len(u.fields) |-> codegen_cpp_type(info, u.fields[i].cpp_type)]
               \o <<"> _whichData;">>)
    IN IF def.kind = "EnumClass" THEN codegen_enum_class(def)
       ELSE LET c == def
                inner   == FlatMap(LAMBDA t : codegen_complex_type_definition(info, t),
                                   c.inner_types)
                fields  == FlatMap(codegen_field, c.fields)
                getters == FlatMap(LAMBDA f : Ok(<<codegen_type_as_ref_if_complex(info, f.cpp_type),
                                                   f.name \o "() const;">>), c.fields)
                setters == FlatMap(LAMBDA f :
                                       Extend(codegen_type_as_rvalue_ref_if_complex(info, f.cpp_type),
                                              Ok(<<f.name \o "(val);">>)), without_which(c))
                union_getters ==
                    IF c.union.some
                    THEN FlatMap(LAMBDA f : Ok(<<codegen_cpp_type(info, f.cpp_type) \o "&",
                                                 "as_" \o f.name \o "() const;">>),
                                 c.union.v.fields)
                    ELSE Ok(<<>>)
                union_setters ==
                    IF c.union.some
                    THEN FlatMap(LAMBDA f :
                                     Extend(codegen_type_as_rvalue_ref_if_complex(info, f.cpp_type),
                                            Ok(<<"set_as_" \o f.name \o "(val);">>)),
                                 c.union.v.fields)
                    ELSE Ok(<<>>)
                methods == Extend(codegen_constructor_prototypes(c),
                             Extend(getters, Extend(setters, Extend(union_getters, union_setters))))
            IN Extend(Ok(<<"class " \o c.name \o " {">>),
                 Extend(inner,
                   Extend(fields,
                     Extend(IF c.union.some THEN codegen_union_field(c.union.v) ELSE Ok(<<>>),
                       Extend(methods, Ok(<<"};">>))))))

(***************************************************************************)
(* The orders of a namespace (cpp/codegen/header.rs, lines 308-448).  The  *)
(* iteration order of a Namespace::namespaces HashMap is order[fqn], with  *)
(* fqn the path of the namespace that owns the map.                        *)
(***************************************************************************)
RECURSIVE generate_all_type_dependencies_recursive(_, _, _, _)
generate_all_type_dependencies_recursive(info, order, fqn, namespace) ==
    Extend(FlatMap(LAMBDA name : generate_all_type_dependencies_recursive(
                                     info, order, with_appended(fqn, name),
                                     namespace.namespaces[name]),
                   order[fqn]),
           FlatMap(LAMBDA def : generate_all_types_used_by_type(info, def), namespace.defs))

\* lines 332-342; names().get(n).unwrap() panics when the dependency has
\* exactly n names
RECURSIVE namespace_deps_loop(_, _, _, _)
namespace_deps_loop(deps, all_type_dependencies, i, fqn) ==
    IF i > Len(all_type_dependencies) THEN Ok(deps)
    ELSE LET type_dependency == all_type_dependencies[i]
         IN IF Len(type_dependency) >= Len(fqn) /\ Len(fqn) > 0
            THEN IF Len(type_dependency) > Len(fqn)
                 THEN LET depname == type_dependency[Len(fqn) + 1]
                      IN namespace_deps_loop(
                             IF Contains(deps, depname) THEN deps ELSE Append(deps, depname),
                             all_type_dependencies, i + 1, fqn)
                 ELSE Panic
            ELSE namespace_deps_loop(deps, all_type_dependencies, i + 1, fqn)

\* the dependency list of the child namespace called name of the namespace fqn
generate_dependency_list_for_namespaces(info, order, fqn, name, namespace) ==
    LET all_type_dependencies ==
            generate_all_type_dependencies_recursive(
                info, order, with_appended(fqn, name), namespace)
    IN IF ~all_type_dependencies.ok THEN Panic
       ELSE namespace_deps_loop(<<>>, all_type_dependencies.v, 1, fqn)

\* insert_names_sorted_by_dependencies as a function: dst after the call
RECURSIVE insert_names_sorted_by_dependencies(_, _, _, _)
RECURSIVE insert_dep_list(_, _, _, _, _)
insert_dep_list(dst, dep_list, i, deps, queue) ==
    IF i > Len(dep_list) THEN dst
    ELSE insert_dep_list(insert_names_sorted_by_dependencies(dst, dep_list[i], deps, queue),
                         dep_list, i + 1, deps, queue)

insert_names_sorted_by_dependencies(dst, name, deps, queue) ==
    IF returns_early(dst, name, queue) THEN dst
    ELSE Append(insert_dep_list(dst, dep_list_of(deps, name), 1, deps, Append(queue, name)),
                name)

\* the loops of lines 398-400 and 420-422
RECURSIVE sort_names(_, _, _, _)
sort_names(dst, names, i, deps) ==
    IF i > Len(names) THEN dst
    ELSE sort_names(insert_names_sorted_by_dependencies(dst, names[i], deps, <<>>),
                    names, i + 1, deps)

\* lines 413-439: the definitions of the namespace, in the type order
codegen_sorted_types(info, defs) ==
    IF \E i \in 1..Len(defs) : ~generate_dependency_list_for_type(info, defs[i]).ok
    THEN Panic
    ELSE LET deps   == insert_type_dependencies(EmptyMap, info, defs, 1)
             sorted == sort_names(<<>>, [i \in 1..Len(defs) |-> defs[i].name], 1, deps)
         IN FlatMap(LAMBDA def : codegen_complex_type_definition(info, def),
                    collect_sorted_types(sorted, defs))

(***************************************************************************)
(* The implementation file (cpp/codegen/implementation.rs).  Its           *)
(* definitions are sorted as strings before they are joined, so the file   *)
(* is the set of its definitions.                                          *)
(***************************************************************************)
\* one definition made of the tokens of r
Def(r) == IF r.ok THEN Ok(<<r.v>>) ELSE Panic

\* codegen_complex_type_def with codegen_class and what it calls: the
\* constructors, clone and the accessors of a class and of its inner types
RECURSIVE codegen_complex_type_def(_, _, _)
codegen_complex_type_def(info, ns, def) ==
    LET c == def
        owner == fqn_to_string(ns) \o "::" \o c.name \o "::"
        codegen_constructor(fields) ==
            Def(Extend(Ok(<<fqn_to_string(with_appended(ns, c.name)) \o "::" \o c.name \o "(">>),
                  FlatMap(LAMBDA f : Extend(codegen_type_as_rvalue_ref_if_complex(info, f.cpp_type),
                                            Ok(<<f.name>>)), fields)))
        codegen_clone_field(f) ==
            IF f.cpp_type.k = "RefId"
            THEN LET e == is_enum_class(info, f.cpp_type)
                 IN IF ~e.ok THEN Panic
                    ELSE Ok(<<IF e.v THEN "_" \o f.name ELSE "_" \o f.name \o ".clone()">>)
            ELSE IF f.cpp_type.k = "Vector" THEN Ok(<<"std::move(" \o f.name \o ")">>)
                 ELSE Ok(<<"_" \o f.name>>)
        \* lines 117-135: is_enum_class is called for a complex element type
        codegen_clone_vector_field(f, element_type) ==
            LET e == IF is_complex_cpp_type(element_type) THEN is_enum_class(info, element_type)
                     ELSE Ok(TRUE)
            IN IF ~e.ok THEN Panic
               ELSE Ok(<<"std::vector<", codegen_cpp_type(info, element_type), ">", f.name,
                         IF ~e.v THEN "i->clone()" ELSE "*i">>)
        codegen_clone_union_case(f) ==
            LET conversion ==
                    IF f.cpp_type.k = "RefId"
                    THEN LET e == is_enum_class(info, f.cpp_type)
                         IN IF ~e.ok THEN Panic ELSE Ok(<<"as_" \o f.name>>)
                    ELSE Ok(<<"as_" \o f.name>>)
                field_clones == FlatMap(codegen_clone_field, without_which(c))
                vector_field_clone ==
                    IF f.cpp_type.k = "Vector" THEN codegen_clone_vector_field(f, f.cpp_type.t)
                    ELSE Ok(<<>>)
            IN Extend(Ok(<<"case " \o f.name \o ":">>),
                 Extend(conversion, Extend(field_clones, vector_field_clone)))
        codegen_clone ==
            LET vector_field_clones ==
                    FlatMap(LAMBDA f : IF f.cpp_type.k = "Vector"
                                       THEN codegen_clone_vector_field(f, f.cpp_type.t)
                                       ELSE Ok(<<>>), c.fields)
                field_clones == FlatMap(codegen_clone_field, without_which(c))
                return_code ==
                    IF c.union.some
                    THEN FlatMap(codegen_clone_union_case, c.union.v.fields)
                    ELSE Ok(<<"return">>)
            IN Def(Extend(Ok(<<fqn_to_string(with_appended(ns, c.name)) \o "::clone()">>),
                     Extend(vector_field_clones, Extend(field_clones, return_code))))
        codegen_constructors ==
            Extend(IF c.union.some
                   THEN FlatMap(LAMBDA u : codegen_constructor(
                                               Append(c.fields, CppField("whichData", u.cpp_type))),
                                c.union.v.fields)
                   ELSE codegen_constructor(c.fields),
              Extend(Ok(<< <<fqn_to_string(with_appended(ns, c.name)) \o "::" \o c.name \o "(&&)">>,
                           <<fqn_to_string(with_appended(ns, c.name)) \o "::~" \o c.name \o "()">>,
                           <<fqn_to_string(with_appended(ns, c.name)) \o "::operator=">> >>),
                     codegen_clone))
        \* lines 347-365: a getter for every field, a setter for every field but which
        codegen_field_accessors ==
            Extend(
              FlatMap(LAMBDA f :
                        Extend(Ok(<< <<codegen_type_as_ref_if_complex(info, f.cpp_type),
                                       owner \o f.name \o "() const">> >>),
                               IF f.name # "which"
                               THEN Def(Extend(Ok(<<owner \o f.name>>),
                                          codegen_type_as_rvalue_ref_if_complex(info, f.cpp_type)))
                               ELSE Ok(<<>>)),
                      c.fields),
              IF c.union.some
              THEN FlatMap(LAMBDA f :
                             Extend(Ok(<< <<codegen_type_as_ref_if_complex(info, f.cpp_type),
                                            owner \o "as_" \o f.name \o "() const">> >>),
                                    Def(Extend(Ok(<<owner \o "set_as_" \o f.name>>),
                                          codegen_type_as_rvalue_ref_if_complex(info, f.cpp_type)))),
                           c.union.v.fields)
              ELSE Ok(<<>>))
    IN IF def.kind = "EnumClass" THEN Ok(<<>>)
       ELSE Extend(FlatMap(LAMBDA t : codegen_complex_type_def(
                                          info, with_appended(ns, c.name), t),
                           c.inner_types),
              Extend(codegen_constructors, codegen_field_accessors))

\* lines 388-407, before the sort
RECURSIVE implementation_defs(_, _, _, _)
implementation_defs(info, order, fqn, namespace) ==
    Extend(FlatMap(LAMBDA name : implementation_defs(info, order, with_appended(fqn, name),
                                                     namespace.namespaces[name]),
                   order[fqn]),
           FlatMap(LAMBDA def : codegen_complex_type_def(info, fqn, def), namespace.defs))

\* defs.sort(): the order of the result depends on its elements only
sorted_defs(r) == IF r.ok THEN Ok(Range(r.v)) ELSE Panic

codegen_cpp_file(info, order, compilation_unit) ==
    sorted_defs(implementation_defs(info, order, <<>>, compilation_unit.namespace))

(***************************************************************************)
(* The serde files (cpp/codegen/serde_header.rs, serde_implementation.rs). *)
(***************************************************************************)
\* ctx.capnp_names().get(id).unwrap().to_string()
capnp_name(capnp_names, id) ==
    IF id \in DOMAIN capnp_names THEN Ok(<<fqn_to_string(capnp_names[id])>>) ELSE Panic

\* serde_header.rs codegen_type with codegen_class and codegen_enum; the enum
\* Which of a union is skipped
RECURSIVE serde_header_codegen_type(_, _, _)
serde_header_codegen_type(capnp_names, ns, def) ==
    IF def.kind = "EnumClass"
    THEN IF def.name = "Which" THEN Ok(<<>>)
         ELSE Extend(capnp_name(capnp_names, def.id),
                     Ok(<<"serialize(" \o fqn_to_string(ns) \o "::" \o def.name \o ");",
                          "deserialize">>))
    ELSE Extend(FlatMap(LAMBDA t : serde_header_codegen_type(
                                       capnp_names, with_appended(ns, def.name), t),
                        def.inner_types),
           Extend(capnp_name(capnp_names, def.id),
                  Ok(<<"serialize(" \o fqn_to_string(ns) \o "::" \o def.name \o ");",
                       "deserialize">>)))

RECURSIVE serde_header_defs(_, _, _, _)
serde_header_defs(capnp_names, order, fqn, namespace) ==
    Extend(FlatMap(LAMBDA name : serde_header_defs(capnp_names, order, with_appended(fqn, name),
                                                   namespace.namespaces[name]),
                   order[fqn]),
           FlatMap(LAMBDA def : serde_header_codegen_type(capnp_names, fqn, def),
                   namespace.defs))

codegen_serde_header_file(c, order, compilation_unit) ==
    serde_header_defs(c.capnp_names, order, <<>>, compilation_unit.namespace)

\* serde_implementation.rs codegen_type with codegen_class, codegen_enum and
\* what they call; the enum Which of a union is skipped
RECURSIVE serde_implementation_codegen_type(_, _, _)
serde_implementation_codegen_type(c, ns, def) ==
    LET info == c.type_info
        class == def
        \* lines 23-58
        generic_field_setting_code(f) ==
            IF f.cpp_type.k = "Vector"
            THEN IF f.cpp_type.t.k = "RefId"
                 THEN IF f.cpp_type.t.id \in DOMAIN info THEN Ok(<<"list " \o f.name>>)
                      ELSE Panic
                 ELSE Ok(<<"list " \o f.name>>)
            ELSE IF f.cpp_type.k = "RefId"
                 THEN IF f.cpp_type.id \in DOMAIN info THEN Ok(<<"set " \o f.name>>) ELSE Panic
                 ELSE Ok(<<"set " \o f.name>>)
        \* lines 147-155
        codegen_vector_field_element_deserialization(element_type) ==
            IF element_type.k = "Vector" THEN Panic
            ELSE IF element_type.k = "RefId" THEN Ok(<<"deserialize(*i)">>) ELSE Ok(<<"*i">>)
        codegen_vector_field_deserialization(f, element_type) ==
            Extend(Ok(<<"std::vector<", codegen_cpp_type(info, element_type), ">", f.name>>),
                   codegen_vector_field_element_deserialization(element_type))
        vector_deserialization_code(fields) ==
            FlatMap(LAMBDA f : IF f.cpp_type.k = "Vector"
                               THEN codegen_vector_field_deserialization(f, f.cpp_type.t)
                               ELSE Ok(<<>>), fields)
    IN IF def.kind = "EnumClass"
       THEN IF def.name = "Which" THEN Ok(<<>>)
            ELSE Def(Extend(capnp_name(c.capnp_names, def.id),
                            Ok(<<fqn_to_string(ns) \o "::" \o def.name>> \o def.enumerants)))
       ELSE LET field_serialization_code ==
                    Extend(FlatMap(generic_field_setting_code, without_which(class)),
                           IF class.union.some
                           THEN FlatMap(generic_field_setting_code, class.union.v.fields)
                           ELSE Ok(<<>>))
                deserialization_body ==
                    Extend(vector_deserialization_code(class.fields),
                      Extend(IF class.union.some
                             THEN vector_deserialization_code(class.union.v.fields)
                             ELSE Ok(<<>>),
                             capnp_name(c.capnp_names, class.id)))
                inner ==
                    FlatMap(LAMBDA t : serde_implementation_codegen_type(
                                           c, with_appended(ns, class.name), t),
                            class.inner_types)
            IN IF ~field_serialization_code.ok \/ ~deserialization_body.ok THEN Panic
               ELSE Extend(inner,
                      Extend(Def(Extend(Ok(<<"serialize " \o fqn_to_string(ns) \o "::"
                                               \o class.name>>),
                                   Extend(capnp_name(c.capnp_names, class.id),
                                          field_serialization_code))),
                             Def(Extend(Ok(<<"deserialize " \o fqn_to_string(ns) \o "::"
                                               \o class.name>>),
                                        deserialization_body))))

RECURSIVE serde_implementation_defs(_, _, _, _)
serde_implementation_defs(c, order, fqn, namespace) ==
    Extend(FlatMap(LAMBDA name : serde_implementation_defs(c, order, with_appended(fqn, name),
                                                           namespace.namespaces[name]),
                   order[fqn]),
           FlatMap(LAMBDA def : serde_implementation_codegen_type(c, fqn, def),
                   namespace.defs))

codegen_serde_cpp_file(c, order, compilation_unit) ==
    sorted_defs(serde_implementation_defs(c, order, <<>>, compilation_unit.namespace))

(***************************************************************************)
(* Inputs of codegen: the namespace tree that generate_base_ast builds     *)
(* from two File nodes, one defining the class T and one the class X, and  *)
(* the compilation units made of it.                                       *)
(***************************************************************************)
\* depth of the deepest namespace path of a File node
MaxNamespaceDepth == 3

\* the namespace paths of at most depth names
NamespacePaths(depth) == UNION {[1..n -> {"P", "Q"}] : n \in 1..depth}

TId == 1

MissingId == 9

\* translator.rs generate_refid_for_union_which
generate_refid_for_union_which(id) == id + 1

\* the class T: without a union and with the field a of type t, or of a
\* struct with the always-present field a and the union member u of type t
ClassesT ==
    LET PlainClassT(t) == Class(TId, "T", <<>>, None, <<CppField("a", t)>>)
        UnionClassT(t) ==
            Class(TId, "T",
                  <<EnumClass(generate_refid_for_union_which(TId), "Which", <<"a", "u">>)>>,
                  Some(UnnamedUnion(TId, <<CppField("u", t)>>)),
                  <<CppField("a", CppInt),
                    CppField("which", CppRefId(generate_refid_for_union_which(TId)))>>)
    IN {PlainClassT(t) : t \in {CppInt, CppRefId(OtherId), CppVector(CppRefId(OtherId)),
                                 CppRefId(MissingId)}}
       \cup {UnionClassT(t) : t \in {CppRefId(OtherId), CppVector(CppRefId(OtherId)),
                                      CppVector(CppRefId(MissingId)),
                                      CppVector(CppVector(CppRefId(MissingId)))}}

\* get_or_create_namespace_mut without the test of line 374: the namespace
\* of each name of the path is created anew
RECURSIVE get_or_create_namespace_mut_always_creating(_, _)
get_or_create_namespace_mut_always_creating(ns, name) ==
    IF Len(name) = 0 THEN ns
    ELSE [ns EXCEPT !.namespaces =
             MapInsert(@, name[1],
                       get_or_create_namespace_mut_always_creating(
                           Namespace(<<>>, EmptyMap), Tail(name)))]

\* Namespace::get_or_create_namespace_mut: the tree after the call
RECURSIVE get_or_create_namespace_mut(_, _)
get_or_create_namespace_mut(ns, name) ==
    IF Len(name) = 0 THEN ns
    ELSE LET child == IF name[1] \in DOMAIN ns.namespaces THEN ns.namespaces[name[1]]
                      ELSE Namespace(<<>>, EmptyMap)
         IN [ns EXCEPT !.namespaces =
                MapInsert(@, name[1], get_or_create_namespace_mut(child, Tail(name)))]

\* namespace.defs_mut().push(def) on the namespace called name
RECURSIVE defs_push(_, _, _)
defs_push(ns, name, def) ==
    IF Len(name) = 0 THEN [ns EXCEPT !.defs = Append(@, def)]
    ELSE [ns EXCEPT !.namespaces[name[1]] = defs_push(@, Tail(name), def)]

\* the paths of all namespaces of a tree, the root included
RECURSIVE all_namespaces(_, _)
all_namespaces(ns, fqn) ==
    {fqn} \cup UNION {all_namespaces(ns.namespaces[n], with_appended(fqn, n)) :
                         n \in DOMAIN ns.namespaces}

\* every HashMap iterates in an order of its own
RECURSIVE HashOrders(_, _)
HashOrders(ns, todo) ==
    LET Permutations_of(S) ==
            {s \in [1..Cardinality(S) -> S] :
                \A i, j \in 1..Cardinality(S) : i # j => s[i] # s[j]}
    IN IF todo = {} THEN {EmptyMap}
       ELSE LET fqn == CHOOSE x \in todo : TRUE
            IN {MapInsert(h, fqn, s) :
                   h \in HashOrders(ns, todo \ {fqn}),
                   s \in Permutations_of(DOMAIN get_namespace(ns, fqn).v.namespaces)}

\* the AST that translator.rs translate makes of two File nodes with one
\* child each (generate_base_ast_for_file_node, lines 310-323), with
\* the compilation unit of generate_poco and, if asked for, of generate_serde;
\* Context::capnp_names as set_capnp_names_from leaves it
InitCodegen ==
    /\ pc = "set_type_info"
    /\ \E tpath \in NamespacePaths(MaxNamespaceDepth),
          xpath \in NamespacePaths(MaxNamespaceDepth - 1),
          t \in ClassesT, with_serde \in BOOLEAN :
          LET base == defs_push(get_or_create_namespace_mut(Namespace(<<>>, EmptyMap), tpath),
                                tpath, t)
              ns == defs_push(get_or_create_namespace_mut(base, xpath), xpath, ClassX)
              generate_poco == CompilationUnit("lib", ns, FALSE)
              generate_serde == CompilationUnit("serde", ns, TRUE)
          IN /\ ast = [files |-> IF with_serde THEN <<generate_poco, generate_serde>>
                                 ELSE <<generate_poco>>]
             /\ hash_order \in HashOrders(ns, all_namespaces(ns, <<>>))
    /\ ctx = [type_info |-> EmptyMap,
              capnp_names |-> (TId :> <<"schema", "T">>) @@ (OtherId :> <<"schema", "X">>)]
    /\ unit = 1
    /\ frames = <<>>
    /\ header_contents = None
    /\ files = EmptyMap
    /\ aborted_in = ""
    /\ IdleOrder
    /\ IdleTranslation
    /\ IdleLibrary

(***************************************************************************)
(* codegen (cpp/codegen/mod.rs, lines 156-178) step by step.               *)
(***************************************************************************)
\* a panic unwinds the whole run
Abort(step) ==
    /\ pc' = "panic"
    /\ aborted_in' = step
    /\ UNCHANGED <<ast, ctx, hash_order, unit, frames, header_contents, files>>

\* line 158
SetTypeInfoFrom ==
    /\ pc = "set_type_info"
    /\ ctx' = [ctx EXCEPT !.type_info = set_type_info_from(@, ast.files, 1)]
    /\ pc' = "units"
    /\ UNCHANGED <<ast, hash_order, unit, frames, header_contents, files, aborted_in>>
    /\ UNCHANGED <<order_vars, translation_vars, library_vars>>

\* a call of header.rs codegen_namespace_contents
HeaderFrame(fqn) ==
    [current_namespace |-> fqn, phase |-> "namespace_dependencies",
     namespace_dependencies |-> EmptyMap, sorted_child_namespaces |-> <<>>,
     next |-> 1, namespace_defs |-> <<>>]

TopFrame == frames[Len(frames)]

\* the namespace argument of the innermost call
TopNamespace == get_namespace(ast.files[unit].namespace, TopFrame.current_namespace).v

\* lines 162-163 and header.rs codegen_header_file
BeginHeader ==
    /\ pc = "units"
    /\ unit <= Len(ast.files)
    /\ ~ast.files[unit].is_serde_file
    /\ frames' = <<HeaderFrame(<<>>)>>
    /\ pc' = "header"
    /\ UNCHANGED <<ast, ctx, hash_order, unit, header_contents, files, aborted_in>>
    /\ UNCHANGED <<order_vars, translation_vars, library_vars>>

\* header.rs lines 388-391
NamespaceDependencies ==
    /\ pc = "header"
    /\ TopFrame.phase = "namespace_dependencies"
    /\ LET deps == [name \in DOMAIN TopNamespace.namespaces |->
                      generate_dependency_list_for_namespaces(
                          ctx.type_info, hash_order, TopFrame.current_namespace, name,
                          TopNamespace.namespaces[name])]
       IN IF \A name \in DOMAIN deps : deps[name].ok
          THEN /\ frames' = [frames EXCEPT ![Len(frames)] =
                                [@ EXCEPT !.phase = "sort",
                                          !.namespace_dependencies =
                                              [name \in DOMAIN deps |-> deps[name].v]]]
               /\ UNCHANGED <<pc, ast, ctx, hash_order, unit, header_contents, files,
                              aborted_in>>
          ELSE Abort("namespace_dependencies")
    /\ UNCHANGED <<order_vars, translation_vars, library_vars>>

\* header.rs lines 397-400
SortChildNamespaces ==
    /\ pc = "header"
    /\ TopFrame.phase = "sort"
    /\ frames' = [frames EXCEPT ![Len(frames)] =
                     [@ EXCEPT !.phase = "children",
                               !.sorted_child_namespaces =
                                   sort_names(<<>>, hash_order[TopFrame.current_namespace], 1,
                                              TopFrame.namespace_dependencies)]]
    /\ UNCHANGED <<pc, ast, ctx, hash_order, unit, header_contents, files, aborted_in>>
    /\ UNCHANGED <<order_vars, translation_vars, library_vars>>

\* header.rs lines 404-411: the next child namespace, looked up by its name
CodegenNamespace ==
    /\ pc = "header"
    /\ TopFrame.phase = "children"
    /\ TopFrame.next <= Len(TopFrame.sorted_child_namespaces)
    /\ LET name == TopFrame.sorted_child_namespaces[TopFrame.next]
       IN IF get_namespace(TopNamespace, <<name>>).some
          THEN /\ frames' = Append([frames EXCEPT ![Len(frames)].next = @ + 1],
                                   HeaderFrame(with_appended(TopFrame.current_namespace, name)))
               /\ UNCHANGED <<pc, ast, ctx, hash_order, unit, header_contents, files,
                              aborted_in>>
          ELSE Abort("codegen_namespace")
    /\ UNCHANGED <<order_vars, translation_vars, library_vars>>

\* header.rs lines 413-448, and the return to the caller
CodegenTypes ==
    /\ pc = "header"
    /\ TopFrame.phase = "children"
    /\ TopFrame.next > Len(TopFrame.sorted_child_namespaces)
    /\ LET types == codegen_sorted_types(ctx.type_info, TopNamespace.defs)
           contents == TopFrame.namespace_defs \o types.v
           fqn == TopFrame.current_namespace
           \* codegen_namespace around the contents of a child namespace
           codegen_namespace(name) ==
               <<"namespace " \o name \o " {">> \o contents \o <<"} // namespace " \o name>>
       IN IF ~types.ok THEN Abort("type_order")
          ELSE /\ IF Len(frames) > 1
                  THEN /\ frames' =
                            [SubSeq(frames, 1, Len(frames) - 1) EXCEPT
                                ![Len(frames) - 1].namespace_defs =
                                    @ \o codegen_namespace(fqn[Len(fqn)])]
                       /\ UNCHANGED <<pc, header_contents>>
                  ELSE /\ frames' = <<>>
                       /\ header_contents' = Some(contents)
                       /\ pc' = "implementation"
               /\ UNCHANGED <<ast, ctx, hash_order, unit, files, aborted_in>>
    /\ UNCHANGED <<order_vars, translation_vars, library_vars>>

\* lines 164-166
CodegenCppFile ==
    /\ pc = "implementation"
    /\ LET impl_contents == codegen_cpp_file(ctx.type_info, hash_order, ast.files[unit])
           name == ast.files[unit].name
       IN IF ~impl_contents.ok THEN Abort("implementation")
          ELSE /\ files' = MapInsert(MapInsert(files, name \o ".hpp", {header_contents.v}),
                                     name \o ".cpp", impl_contents.v)
               /\ header_contents' = None
               /\ unit' = unit + 1
               /\ pc' = "units"
               /\ UNCHANGED <<ast, ctx, hash_order, frames, aborted_in>>
    /\ UNCHANGED <<order_vars, translation_vars, library_vars>>

\* lines 168-171
CodegenSerdeFiles ==
    /\ pc = "units"
    /\ unit <= Len(ast.files)
    /\ ast.files[unit].is_serde_file
    /\ LET serde_header == codegen_serde_header_file(ctx, hash_order, ast.files[unit])
           impl_contents == codegen_serde_cpp_file(ctx, hash_order, ast.files[unit])
           name == ast.files[unit].name
       IN IF ~serde_header.ok \/ ~impl_contents.ok THEN Abort("serde")
          ELSE /\ files' = MapInsert(MapInsert(files, name \o ".hpp", {serde_header.v}),
                                     name \o ".cpp", impl_contents.v)
               /\ unit' = unit + 1
               /\ UNCHANGED <<pc, ast, ctx, hash_order, frames, header_contents, aborted_in>>
    /\ UNCHANGED <<order_vars, translation_vars, library_vars>>

\* lines 175-177
ReturnCode ==
    /\ pc = "units"
    /\ unit > Len(ast.files)
    /\ pc' = "returned"
    /\ UNCHANGED <<codegen_vars, aborted_in>>
    /\ UNCHANGED <<order_vars, translation_vars, library_vars>>

NextCodegen ==
    \/ SetTypeInfoFrom
    \/ BeginHeader
    \/ NamespaceDependencies
    \/ SortChildNamespaces
    \/ CodegenNamespace
    \/ CodegenTypes
    \/ CodegenCppFile
    \/ CodegenSerdeFiles
    \/ ReturnCode

SpecCodegen == InitCodegen /\ [][NextCodegen]_vars

(***************************************************************************)
(* What the AST holds, read off the AST alone.                             *)
(***************************************************************************)
\* the types of the fields and of the union members of a definition
RECURSIVE cpp_types_of_def(_)
cpp_types_of_def(def) ==
    IF def.kind = "EnumClass" THEN {}
    ELSE {def.fields[i].cpp_type : i \in 1..Len(def.fields)}
         \cup (IF def.union.some
               THEN {def.union.v.fields[i].cpp_type : i \in 1..Len(def.union.v.fields)}
               ELSE {})
         \cup UNION {cpp_types_of_def(def.inner_types[i]) : i \in 1..Len(def.inner_types)}

RECURSIVE cpp_types_of_namespace(_)
cpp_types_of_namespace(ns) ==
    UNION {cpp_types_of_def(ns.defs[i]) : i \in 1..Len(ns.defs)}
    \cup UNION {cpp_types_of_namespace(ns.namespaces[n]) : n \in DOMAIN ns.namespaces}

RECURSIVE ref_ids_of_cpp_type(_)
ref_ids_of_cpp_type(t) ==
    IF t.k = "RefId" THEN {t.id}
    ELSE IF t.k = "Vector" THEN ref_ids_of_cpp_type(t.t) ELSE {}

ref_ids_of_namespace(ns) == UNION {ref_ids_of_cpp_type(t) : t \in cpp_types_of_namespace(ns)}

\* the ids of a definition and of its inner types
RECURSIVE ids_of_def(_)
ids_of_def(def) ==
    {def.id} \cup (IF def.kind = "Class"
                   THEN UNION {ids_of_def(def.inner_types[i]) : i \in 1..Len(def.inner_types)}
                   ELSE {})

RECURSIVE ids_defined_in(_)
ids_defined_in(ns) ==
    UNION {ids_of_def(ns.defs[i]) : i \in 1..Len(ns.defs)}
    \cup UNION {ids_defined_in(ns.namespaces[n]) : n \in DOMAIN ns.namespaces}

AstNamespace == ast.files[1].namespace

AllRefIdsRecorded == ref_ids_of_namespace(AstNamespace) \subseteq ids_defined_in(AstNamespace)

\* C3: when every RefId of the AST has a recorded definition, the run does
\* not abort while it computes the namespace dependency lists, looks up the
\* ordered child namespaces or orders the types of a namespace.
C3_OrdererNeverAborts ==
    AllRefIdsRecorded =>
        aborted_in \notin {"namespace_dependencies", "codegen_namespace", "type_order"}

\* something inside the namespace n references something defined inside m
References(n, m) == ref_ids_of_namespace(n) \cap ids_defined_in(m) # {}

\* the child namespaces of the innermost call have been ordered
ChildNamespacesOrdered == pc = "header" /\ TopFrame.phase = "children"

\* C4: at every nesting level, the top level included, a child namespace M
\* comes before its sibling N in the namespace order whenever something in N
\* references something in M and nothing in M references anything in N.
C4_SiblingNamespacesOrdered ==
    ChildNamespacesOrdered =>
        \A n, m \in DOMAIN TopNamespace.namespaces :
            (/\ n # m
             /\ References(TopNamespace.namespaces[n], TopNamespace.namespaces[m])
             /\ ~References(TopNamespace.namespaces[m], TopNamespace.namespaces[n]))
            => /\ Contains(TopFrame.sorted_child_namespaces, n)
               /\ Contains(TopFrame.sorted_child_namespaces, m)
               /\ IndexOf(TopFrame.sorted_child_namespaces, m)
                      < IndexOf(TopFrame.sorted_child_namespaces, n)

\* the types of the AST that hold a RefId without a recorded definition
UnrecordedTypes ==
    {t \in cpp_types_of_namespace(AstNamespace) :
        ~(ref_ids_of_cpp_type(t) \subseteq ids_defined_in(AstNamespace))}

\* what the code generators write for such a type, by value or by reference
RenderedUnrecorded ==
    UNION {{codegen_cpp_type(ctx.type_info, t),
            codegen_cpp_type(ctx.type_info, t) \o "&",
            codegen_cpp_type(ctx.type_info, t) \o "&&"} : t \in UnrecordedTypes}

GeneratedText == UNION {UNION {Range(s) : s \in files[p]} : p \in DOMAIN files}

NO_DISCRIMINANT == 65535

\* Field with its Which: Slot(Type) or Group(id)
ParserField(name, discriminant_value, which) ==
    [name |-> name, discriminant_value |-> discriminant_value, which |-> which]

\* Node with its Which: File, Struct(discriminant_count, fields) or Enum
Node(id, display_name, display_name_prefix_length, scope_id, nested_nodes, which) ==
    [id |-> id, display_name |-> display_name,
     display_name_prefix_length |-> display_name_prefix_length, scope_id |-> scope_id,
     nested_nodes |-> nested_nodes, which |-> which]

(***************************************************************************)
(* Names (rust/ast.rs; Name::from of cpp/ast.rs tokenises the same way).   *)
(***************************************************************************)
\* The letters of the model, each with its lowercase and its uppercase form;
\* "U+00C9" and "U+00E9" are the letters E-acute, two bytes each in UTF-8.
CaseTable ==
    { <<"a", "A">>, <<"b", "B">>, <<"c", "C">>, <<"d", "D">>, <<"e", "E">>, <<"f", "F">>,
      <<"g", "G">>, <<"h", "H">>, <<"i", "I">>, <<"j", "J">>, <<"k", "K">>, <<"l", "L">>,
      <<"m", "M">>, <<"n", "N">>, <<"o", "O">>, <<"p", "P">>, <<"q", "Q">>, <<"r", "R">>,
      <<"s", "S">>, <<"t", "T">>, <<"u", "U">>, <<"v", "V">>, <<"w", "W">>, <<"x", "X">>,
      <<"y", "Y">>, <<"z", "Z">>, <<"U+00E9", "U+00C9">> }

\* str::to_lowercase over the characters of the model
to_lowercase(s) ==
    LET char_to_lowercase(ch) ==
            IF \E l \in CaseTable : l[2] = ch
            THEN (CHOOSE l \in CaseTable : l[2] = ch)[1] ELSE ch
    IN [i \in 1..Len(s) |-> char_to_lowercase(s[i])]

\* str::to_uppercase over the characters of the model
to_uppercase(s) ==
    LET char_to_uppercase(ch) ==
            IF \E l \in CaseTable : l[1] = ch
            THEN (CHOOSE l \in CaseTable : l[1] = ch)[2] ELSE ch
    IN [i \in 1..Len(s) |-> char_to_uppercase(s[i])]

\* str::replace of the one character from by the string to
RECURSIVE replace(_, _, _)
replace(s, from, to) ==
    IF s = <<>> THEN <<>>
    ELSE (IF Head(s) = from THEN to ELSE <<Head(s)>>) \o replace(Tail(s), from, to)

\* the loop of Name::from over the characters from the i-th on
RECURSIVE tokenize(_, _, _, _, _)
tokenize(name, i, names, current_name, last_char_was_lowercase) ==
    LET is_uppercase(ch) == \E l \in CaseTable : l[2] = ch
        is_lowercase(ch) == \E l \in CaseTable : l[1] = ch
    IN IF i > Len(name)
       THEN IF current_name # <<>> THEN Append(names, current_name) ELSE names
       ELSE LET split == last_char_was_lowercase /\ is_uppercase(name[i])
            IN tokenize(name, i + 1,
                        IF split THEN Append(names, current_name) ELSE names,
                        (IF split THEN <<>> ELSE current_name) \o <<name[i]>>,
                        is_lowercase(name[i]))


Name_from(name) ==
    [tokens |-> tokenize(replace(replace(name, "/", <<"_">>), "+", <<"_", "p", "l", "u", "s">>),
                         1, <<>>, <<>>, FALSE)]

(***************************************************************************)
(* Rust backend AST and translation (capnpc-abstract-rust, rust/ast.rs).   *)
(***************************************************************************)
TypeUnit == [k |-> "Unit"]

TypeList(t) == [k |-> "List", t |-> t]

TypeRefId(id) == [k |-> "RefId", id |-> id]

TypeRefName(fqn) == [k |-> "RefName", fqn |-> fqn]

Enumerant(name, rust_type) == [name |-> name, rust_type |-> rust_type]

Field(name, rust_type) == [name |-> name, rust_type |-> rust_type]

Enum(id, name, fully_qualified_type_name, capnp_type_name, enum_origin, enumerants) ==
    [kind |-> "Enum", id |-> id, name |-> name,
     fully_qualified_type_name |-> fully_qualified_type_name,
     capnp_type_name |-> capnp_type_name, enum_origin |-> enum_origin,
     enumerants |-> enumerants]

Struct(id, name, fully_qualified_type_name, capnp_type_name, fields) ==
    [kind |-> "Struct", id |-> id, name |-> name,
     fully_qualified_type_name |-> fully_qualified_type_name,
     capnp_type_name |-> capnp_type_name, fields |-> fields]

ElementTypeDef(def) == [kind |-> "TypeDef", def |-> def]

ElementModule(m) == [kind |-> "Module", m |-> m]

Module(name, elements) == [name |-> name, elements |-> elements]

TranslationContext_new ==
    [filename |-> <<>>, module_path |-> <<>>, names |-> EmptyMap, children |-> EmptyMap,
     nodes |-> EmptyMap]

clone_with_submodule(tctx, submodule_name) ==
    [tctx EXCEPT !.module_path = Append(@, submodule_name)]

generate_capnp_type_name(tctx, type_name) ==
    <<Name_from(replace(to_lowercase(tctx.filename), ".", <<"_">>))>>
    \o (IF tctx.module_path = <<>> THEN <<>> ELSE Tail(tctx.module_path))
    \o <<type_name>>

generate_fully_qualified_type_name(tctx, type_name) == Append(tctx.module_path, type_name)

\* MultiMap::insert
MultiMapInsert(m, key, val) ==
    MapInsert(m, key, IF key \in DOMAIN m THEN Append(m[key], val) ELSE <<val>>)

RECURSIVE insert_nested_names(_, _, _)
insert_nested_names(names, nested_nodes, i) ==
    IF i > Len(nested_nodes) THEN names
    ELSE insert_nested_names(MapInsert(names, nested_nodes[i].id,
                                       Name_from(nested_nodes[i].name)),
                             nested_nodes, i + 1)

\* the loop of build_translation_context_from_cgr from the i-th node on; the
\* slice display_name[0..display_name_prefix_length-1] panics when the length
\* is 0 or the end lies beyond the string
RECURSIVE build_translation_context_from_cgr(_, _, _)
build_translation_context_from_cgr(tctx, nodes, i) ==
    IF i > Len(nodes) THEN Ok(tctx)
    ELSE LET node == nodes[i]
             is_file == node.which.k = "File"
             end == node.display_name_prefix_length - 1
         IN IF is_file /\ (end < 0 \/ end > Len(node.display_name)) THEN Panic
            ELSE LET file_names ==
                         IF is_file
                         THEN MapInsert(tctx.names, node.id,
                                        Name_from(SubSeq(node.display_name, 1, end)))
                         ELSE tctx.names
                 IN build_translation_context_from_cgr(
                        [tctx EXCEPT
                            !.names = insert_nested_names(file_names, node.nested_nodes, 1),
                            !.children = MultiMapInsert(@, node.scope_id, node.id),
                            !.nodes = MapInsert(@, node.id, node)],
                        nodes, i + 1)

generate_id_for_which_enum(id) == id + 1

\* the requested files and their imports are searched first, file by file,
\* then the File nodes
get_filename_from_cgr(request, id) ==
    LET requested == request.requested_files
        imported(i) == {j \in 1..Len(requested[i].imports) : requested[i].imports[j].id = id}
        found == {i \in 1..Len(requested) : requested[i].id = id \/ imported(i) # {}}
        file_nodes == {i \in 1..Len(request.nodes) :
                          request.nodes[i].which.k = "File" /\ request.nodes[i].id = id}
        Min(S) == CHOOSE x \in S : \A y \in S : x <= y
    IN IF found # {}
       THEN LET file == requested[Min(found)]
            IN IF file.id = id THEN Ok(file.filename)
               ELSE Ok(file.imports[Min(imported(Min(found)))].name)
       ELSE IF file_nodes # {} THEN Ok(request.nodes[Min(file_nodes)].display_name)
            ELSE Panic

\* a translator that approximates an unsupported type by Unit
RECURSIVE Type_translate_approximating(_)
Type_translate_approximating(t) ==
    IF t.k \in {"AnyPointer", "Data", "Interface"} THEN Ok(TypeUnit)
    ELSE IF t.k \in {"Enum", "Struct"} THEN Ok(TypeRefId(t.type_id))
    ELSE IF t.k = "List"
         THEN Ok(TypeList(Type_translate_approximating(t.t).v))
    ELSE Ok([k |-> t.k])

RECURSIVE Type_translate(_)
Type_translate(t) ==
    IF t.k \in {"AnyPointer", "Data", "Interface"} THEN Panic
    ELSE IF t.k \in {"Enum", "Struct"} THEN Ok(TypeRefId(t.type_id))
    ELSE IF t.k = "List"
         THEN LET inner == Type_translate(t.t)
              IN IF inner.ok THEN Ok(TypeList(inner.v)) ELSE Panic
    ELSE IF t.k = "Text" THEN Ok([k |-> "String"])
    ELSE IF t.k = "Void" THEN Ok(TypeUnit)
    ELSE Ok([k |-> t.k])

\* Enumerant::translate of a parser Field
Enumerant_translate_field(f) ==
    IF f.which.k = "Group" THEN Panic
    ELSE LET t == Type_translate(f.which.t)
         IN IF t.ok THEN Ok(Enumerant(Name_from(f.name), t.v)) ELSE Panic

\* the fields with discriminant_value() == NO_DISCRIMINANT, in their order
RECURSIVE not_discriminated(_)
not_discriminated(fields) ==
    IF fields = <<>> THEN <<>>
    ELSE (IF Head(fields).discriminant_value = NO_DISCRIMINANT THEN <<Head(fields)>> ELSE <<>>)
         \o not_discriminated(Tail(fields))

\* the fields with discriminant_value() != NO_DISCRIMINANT, in their order
RECURSIVE discriminated(_)
discriminated(fields) ==
    IF fields = <<>> THEN <<>>
    ELSE (IF Head(fields).discriminant_value # NO_DISCRIMINANT THEN <<Head(fields)>> ELSE <<>>)
         \o discriminated(Tail(fields))

\* a translator that takes no struct for a partial union
is_partial_union_never(which) == FALSE

\* lines 437 and 501
is_partial_union(which) ==
    /\ which.discriminant_count > 0
    /\ which.discriminant_count < Len(which.fields)

\* a translator that takes no struct for a union of all its fields
is_whole_union_never(which) == FALSE

\* line 425
is_whole_union(which) == which.discriminant_count = Len(which.fields)

TypeDef_translate(tctx, n) ==
    LET Field_translate(f) ==
            IF f.which.k = "Group" THEN Panic
            ELSE LET t == Type_translate(f.which.t)
                 IN IF t.ok THEN Ok(Field(Name_from(f.name), t.v)) ELSE Panic
        \* Enumerant::translate of a parser Enumerant
        Enumerant_translate(e) == Enumerant(Name_from(e.name), TypeUnit)
    IN
    IF n.which.k \in {"Annotation", "Const", "File", "Interface"} THEN Panic
    ELSE IF n.id \notin DOMAIN tctx.names THEN Panic
    ELSE LET name == tctx.names[n.id]
         IN IF n.which.k = "Enum"
            THEN Ok(Enum(n.id, name, generate_fully_qualified_type_name(tctx, name),
                         generate_capnp_type_name(tctx, name), "Enum",
                         [i \in 1..Len(n.which.enumerants) |->
                             Enumerant_translate(n.which.enumerants[i])]))
            ELSE IF is_whole_union(n.which)
            THEN LET enumerants == Collect([i \in 1..Len(n.which.fields) |->
                                               Enumerant_translate_field(n.which.fields[i])])
                 IN IF enumerants.ok
                    THEN Ok(Enum(n.id, name, generate_fully_qualified_type_name(tctx, name),
                                 generate_capnp_type_name(tctx, name), "Struct", enumerants.v))
                    ELSE Panic
            ELSE LET kept == IF is_partial_union(n.which)
                             THEN not_discriminated(n.which.fields) ELSE n.which.fields
                     new_fields == Collect([i \in 1..Len(kept) |-> Field_translate(kept[i])])
                     which_field == IF is_partial_union(n.which)
                                    THEN <<Field(Name_from(<<"w", "h", "i", "c", "h">>),
                                                 TypeRefId(generate_id_for_which_enum(n.id)))>>
                                    ELSE <<>>
                 IN IF new_fields.ok
                    THEN Ok(Struct(n.id, name, generate_fully_qualified_type_name(tctx, name),
                                   generate_capnp_type_name(tctx, name),
                                   new_fields.v \o which_field))
                    ELSE Panic

\* lines 474-478 and 518 around the elements that the rest of the function pushes
Module_of(tctx, n, pushed) ==
    IF n.id \in DOMAIN tctx.names /\ pushed.ok
    THEN Ok(Module(tctx.names[n.id], <<[kind |-> "UseDecl",
                                           text |-> "crate::getset::{Getters, CopyGetters, MutGetters, Setters}"]>> \o pushed.v))
    ELSE Panic

\* a lookup that finds an empty Enum for an id absent from the node table
node_option_never_none(tctx, nested_node) ==
    Some(IF nested_node.id \in DOMAIN tctx.nodes THEN tctx.nodes[nested_node.id]
         ELSE Node(nested_node.id, nested_node.name, 0, 0, <<>>,
                   [k |-> "Enum", enumerants |-> <<>>]))

\* line 481: ctx.nodes.get(&nested_node.id())
node_option(tctx, nested_node) ==
    IF nested_node.id \in DOMAIN tctx.nodes THEN Some(tctx.nodes[nested_node.id]) ELSE None

\* lines 480-516 of Module::translate: what the loop pushes from the i-th
\* nested node on, then the Which enum
RECURSIVE Module_elements(_, _, _)
Module_elements(tctx, n, i) ==
    LET \* defs.push(ModuleElement::TypeDef(..)), line 493
        push_type_def(d) == IF d.ok THEN Ok(<<ElementTypeDef(d.v)>>) ELSE Panic
        \* defs.push(ModuleElement::Module(..)), line 496
        push_module(m) == IF m.ok THEN Ok(<<ElementModule(m.v)>>) ELSE Panic
        \* lines 499-516: the Which enum of a node that is partly a union
        Module_which(subctx) ==
            IF n.which.k = "Struct" /\ is_partial_union(n.which)
            THEN LET name == Name_from(<<"W", "h", "i", "c", "h">>)
                     fs == discriminated(n.which.fields)
                     enumerants == Collect([j \in 1..Len(fs) |->
                                               Enumerant_translate_field(fs[j])])
                 IN IF enumerants.ok
                    THEN Ok(<<ElementTypeDef(
                               Enum(generate_id_for_which_enum(n.id), name,
                                    generate_fully_qualified_type_name(subctx, name),
                                    generate_capnp_type_name(tctx, tctx.names[n.id]),
                                    "WhichForPartialUnion", enumerants.v))>>)
                    ELSE Panic
            ELSE Ok(<<>>)
    IN
    IF n.id \notin DOMAIN tctx.names THEN Panic
    ELSE IF i > Len(n.nested_nodes)
    THEN Module_which(clone_with_submodule(tctx, tctx.names[n.id]))
    ELSE LET node == node_option(tctx, n.nested_nodes[i])
         IN IF ~node.some
            THEN Module_elements(tctx, n, i + 1)
            ELSE Extend(
                   Extend(IF node.v.which.k \in {"Enum", "Struct"}
                          THEN push_type_def(TypeDef_translate(
                                                 clone_with_submodule(tctx, tctx.names[n.id]),
                                                 node.v))
                          ELSE Ok(<<>>),
                          push_module(Module_of(
                                          clone_with_submodule(tctx, tctx.names[n.id]),
                                          node.v,
                                          Module_elements(
                                              clone_with_submodule(tctx, tctx.names[n.id]),
                                              node.v, 1)))),
                   Module_elements(tctx, n, i + 1))

Module_translate(tctx, n) == Module_of(tctx, n, Module_elements(tctx, n, 1))

RECURSIVE translate_files(_, _, _)
translate_files(tctx, request, i) ==
    IF i > Len(request.nodes) THEN Ok(<<>>)
    ELSE IF request.nodes[i].which.k = "File"
         THEN LET filename == get_filename_from_cgr(request, request.nodes[i].id)
                  m == IF filename.ok
                       THEN Module_translate([tctx EXCEPT !.filename = filename.v], request.nodes[i])
                       ELSE Panic
              IN Extend(IF m.ok THEN Ok(<<m.v>>) ELSE Panic, translate_files(tctx, request, i + 1))
         ELSE translate_files(tctx, request, i + 1)

RustAst_translate(tctx, request) ==
    LET built == build_translation_context_from_cgr(tctx, request.nodes, 1)
    IN IF ~built.ok THEN Panic
       ELSE LET defs == translate_files(built.v, request, 1)
            IN IF defs.ok THEN Ok([defs |-> defs.v]) ELSE Panic

(***************************************************************************)
(* Reference resolution (rust/ast.rs, lines 577-729).                      *)
(***************************************************************************)
\* a resolver that leaves every reference as it finds it
resolve_ref_id_keeps_id(types, id) == Ok(TypeRefId(id))

\* line 601: ctx.types().get(id).unwrap()
resolve_ref_id(types, id) ==
    IF id \in DOMAIN types THEN Ok(TypeRefName(types[id])) ELSE Panic

RECURSIVE Type_resolve(_, _)
Type_resolve(types, n) ==
    IF n.k = "RefId" THEN resolve_ref_id(types, n.id)
    ELSE IF n.k = "List"
         THEN LET t == Type_resolve(types, n.t)
              IN IF t.ok THEN Ok(TypeList(t.v)) ELSE Panic
         ELSE Ok(n)

\* TypeDef::resolve with Enum::resolve, Struct::resolve, Enumerant::resolve
\* and Field::resolve
TypeDef_resolve(types, n) ==
    LET Field_resolve(f) ==
            LET t == Type_resolve(types, f.rust_type)
            IN IF t.ok THEN Ok([f EXCEPT !.rust_type = t.v]) ELSE Panic
    IN IF n.kind = "Enum"
       THEN LET es == Collect([i \in 1..Len(n.enumerants) |-> Field_resolve(n.enumerants[i])])
            IN IF es.ok THEN Ok([n EXCEPT !.enumerants = es.v]) ELSE Panic
       ELSE LET fs == Collect([i \in 1..Len(n.fields) |-> Field_resolve(n.fields[i])])
            IN IF fs.ok THEN Ok([n EXCEPT !.fields = fs.v]) ELSE Panic

RECURSIVE Module_resolve(_, _)
\* a resolver that copies a UseDecl without its text
ModuleElement_resolve_clearing_use_decl(types, n) ==
    IF n.kind = "TypeDef"
    THEN LET d == TypeDef_resolve(types, n.def)
         IN IF d.ok THEN Ok(ElementTypeDef(d.v)) ELSE Panic
    ELSE IF n.kind = "Module"
         THEN LET m == Module_resolve(types, n.m)
              IN IF m.ok THEN Ok(ElementModule(m.v)) ELSE Panic
         ELSE Ok([n EXCEPT !.text = ""])

ModuleElement_resolve(types, n) ==
    IF n.kind = "TypeDef"
    THEN LET d == TypeDef_resolve(types, n.def)
         IN IF d.ok THEN Ok(ElementTypeDef(d.v)) ELSE Panic
    ELSE IF n.kind = "Module"
         THEN LET m == Module_resolve(types, n.m)
              IN IF m.ok THEN Ok(ElementModule(m.v)) ELSE Panic
         ELSE Ok(n)

Module_resolve(types, n) ==
    LET es == Collect([i \in 1..Len(n.elements) |-> ModuleElement_resolve(types, n.elements[i])])
    IN IF es.ok THEN Ok(Module(n.name, es.v)) ELSE Panic

RustAst_resolve(types, n) ==
    LET defs == Collect([i \in 1..Len(n.defs) |-> Module_resolve(types, n.defs[i])])
    IN IF defs.ok THEN Ok([defs |-> defs.v]) ELSE Panic

\* Module::build_context; the elements of the module from the i-th on fill
\* sub_ctx in Module_build_sub_context
RECURSIVE Module_build_context(_, _)
RECURSIVE Module_build_sub_context(_, _, _)
Module_build_sub_context(sub_ctx, elements, i) ==
    IF i > Len(elements) THEN sub_ctx
    ELSE Module_build_sub_context(
             IF elements[i].kind = "TypeDef"
             THEN MapInsert(sub_ctx, elements[i].def.id, <<elements[i].def.name>>)
             ELSE IF elements[i].kind = "Module"
                  THEN Module_build_context(sub_ctx, elements[i].m)
                  ELSE sub_ctx,
             elements, i + 1)

Module_build_context(types, n) ==
    LET sub_ctx == Module_build_sub_context(EmptyMap, n.elements, 1)
    IN [key \in DOMAIN types \cup DOMAIN sub_ctx |->
           IF key \in DOMAIN sub_ctx THEN <<n.name>> \o sub_ctx[key] ELSE types[key]]

RECURSIVE RustAst_build_context(_, _, _)
RustAst_build_context(types, defs, i) ==
    IF i > Len(defs) THEN types
    ELSE RustAst_build_context(Module_build_context(types, defs[i]), defs, i + 1)

(***************************************************************************)
(* Inputs of the translators: a request with a File node, the Struct node  *)
(* S declared in that file and the Enum node X, which is declared in the   *)
(* file or inside S and may be left out of the request.                    *)
(***************************************************************************)
\* the most fields the struct S has
MaxFields == 3

FileId == 20

\* the field lists of the struct S: the fields have different names, every
\* second one in two tokens, and a field is a Slot of a type or a Group; at
\* most one field is of a type that the translators do not support
FieldLists ==
    LET FieldLetters == <<"a", "b", "c", "d", "e", "f">>
        FieldName(i) == IF i % 2 = 1 THEN <<FieldLetters[i]>> ELSE <<FieldLetters[i], "X">>
        ParserInt32 == [k |-> "Int32"]
        ParserEnum(type_id) == [k |-> "Enum", type_id |-> type_id]
        ParserList(t) == [k |-> "List", t |-> t]
        Slot(t) == [k |-> "Slot", t |-> t]
        Group(id) == [k |-> "Group", id |-> id]
        Supported ==
            {Slot(ParserInt32), Slot(ParserEnum(OtherId)),
             Slot(ParserList(ParserList(ParserEnum(OtherId)))), Group(0)}
        Unsupported ==
            {Slot([k |-> "Data"]), Slot([k |-> "Interface", type_id |-> OtherId]),
             Slot(ParserList(ParserList([k |-> "AnyPointer"])))}
        FieldWhiches(n) ==
            {which \in [1..n -> Supported \cup Unsupported] :
                Cardinality({i \in 1..n : which[i] \in Unsupported}) <= 1}
    IN UNION {{[i \in 1..n |->
                   ParserField(FieldName(i),
                               IF in_union[i] THEN i - 1 ELSE NO_DISCRIMINANT, which[i])] :
                 in_union \in [1..n -> BOOLEAN], which \in FieldWhiches(n)} :
              n \in 0..MaxFields}

\* the requests about a struct with these fields; its discriminant_count
\* says no union, the discriminated fields as the union, or all fields as
\* the union.  The node X is an Enum with an id of its own, declared in the
\* file or inside S, and present in the request or not; or the file is not
\* among the requested files; or the prefix length of the file is 0, 1 or
\* the length of its display name; or X
\* is an Interface or a Const; or X has the id of the file, or the id that
\* follows the id of S; or the file declares X before S
RequestsWith(fields) ==
    LET NestedNode(id, name) == [id |-> id, name |-> name]
        WhichFile == [k |-> "File"]
        WhichStruct(discriminant_count) ==
            [k |-> "Struct", discriminant_count |-> discriminant_count, fields |-> fields]
        WhichOfX(x_kind) ==
            IF x_kind = "Enum" THEN [k |-> "Enum", enumerants |-> <<[name |-> <<"a">>]>>]
            ELSE [k |-> x_kind]
        NodeS(discriminant_count, x_id, x_scope) ==
            Node(TId, <<"d", "/", "f", ":", "S">>, 4, FileId,
                 IF x_scope = TId THEN <<NestedNode(x_id, <<"X">>)>> ELSE <<>>,
                 WhichStruct(discriminant_count))
        NodeX(x_kind, x_id, x_scope) ==
            Node(x_id, <<"d", "/", "f", ":", "X">>, 4, x_scope, <<>>, WhichOfX(x_kind))
        NodeFile(display_name_prefix_length, x_id, x_scope, x_first) ==
            Node(FileId, <<"d", "/", "f">>, display_name_prefix_length, 0,
                 IF x_scope # FileId THEN <<NestedNode(TId, <<"S">>)>>
                 ELSE IF x_first THEN <<NestedNode(x_id, <<"X">>), NestedNode(TId, <<"S">>)>>
                 ELSE <<NestedNode(TId, <<"S">>), NestedNode(x_id, <<"X">>)>>,
                 WhichFile)
        DiscriminantCounts ==
            {0, Len(fields),
             Cardinality({i \in 1..Len(fields) :
                             fields[i].discriminant_value # NO_DISCRIMINANT})}
        Scopes == {FileId, TId}
        Variants ==
            [prefix : {2}, requested : {TRUE}, x_kind : {"Enum"}, x_id : {OtherId},
             x_scope : Scopes, x_present : BOOLEAN, x_first : {FALSE}]
            \cup [prefix : {1, 3}, requested : {TRUE}, x_kind : {"Enum"}, x_id : {OtherId},
                  x_scope : {FileId}, x_present : {TRUE}, x_first : {FALSE}]
            \cup [prefix : {0}, requested : {TRUE}, x_kind : {"Enum"}, x_id : {OtherId},
                  x_scope : {FileId}, x_present : {TRUE}, x_first : {FALSE}]
            \cup [prefix : {2}, requested : {FALSE}, x_kind : {"Enum"}, x_id : {OtherId},
                  x_scope : Scopes, x_present : {TRUE}, x_first : {FALSE}]
            \cup [prefix : {2}, requested : {TRUE}, x_kind : {"Interface", "Const"},
                  x_id : {OtherId}, x_scope : Scopes, x_present : {TRUE}, x_first : {FALSE}]
            \cup [prefix : {2}, requested : {TRUE}, x_kind : {"Enum"}, x_id : {FileId},
                  x_scope : {FileId}, x_present : {TRUE}, x_first : {FALSE}]
            \cup [prefix : {2}, requested : {TRUE}, x_kind : {"Enum"},
                  x_id : {generate_id_for_which_enum(TId)}, x_scope : Scopes,
                  x_present : {TRUE}, x_first : {FALSE}]
            \cup [prefix : {2}, requested : {TRUE}, x_kind : {"Enum"}, x_id : {OtherId},
                  x_scope : {FileId}, x_present : BOOLEAN, x_first : {TRUE}]
    IN {[nodes |-> <<NodeFile(v.prefix, v.x_id, v.x_scope, v.x_first),
                     NodeS(dc, v.x_id, v.x_scope)>>
                      \o (IF v.x_present THEN <<NodeX(v.x_kind, v.x_id, v.x_scope)>>
                          ELSE <<>>),
         requested_files |-> IF v.requested
                             THEN <<[id |-> FileId, filename |-> <<"f", ".", "C">>,
                                     imports |-> <<>>]>>
                             ELSE <<>>] :
          v \in Variants, dc \in DiscriminantCounts}

\* the Struct node of the request
StructNode == cgr.nodes[2]

InitRust ==
    /\ pc = "translate"
    /\ aborted_in = ""
    /\ \E fields \in FieldLists : cgr \in RequestsWith(fields)
    /\ translated = <<>>
    /\ resolution_context = <<>>
    /\ resolved = <<>>
    /\ cpp_ctx = <<>>
    /\ cpp_def = <<>>
    /\ cpp_root = <<>>
    /\ file_idx = 0
    /\ IdleOrder
    /\ IdleCodegen
    /\ IdleLibrary

(***************************************************************************)
(* translate (capnpc-abstract-rust, rust/mod.rs, lines 7-18).              *)
(***************************************************************************)
\* line 8
Translate ==
    /\ pc = "translate"
    /\ LET r == RustAst_translate(TranslationContext_new, cgr)
       IN IF r.ok
          THEN /\ translated' = r.v
               /\ pc' = "build_context"
               /\ UNCHANGED aborted_in
          ELSE /\ pc' = "panic"
               /\ aborted_in' = "translate"
               /\ UNCHANGED translated
    /\ UNCHANGED <<cgr, resolution_context, resolved, cpp_ctx, cpp_def, cpp_root, file_idx>>
    /\ UNCHANGED <<order_vars, codegen_vars, library_vars>>

\* lines 10-11
BuildContext ==
    /\ pc = "build_context"
    /\ resolution_context' = RustAst_build_context(EmptyMap, translated.defs, 1)
    /\ pc' = "resolve"
    /\ UNCHANGED <<aborted_in, cgr, translated, resolved, cpp_ctx, cpp_def, cpp_root, file_idx>>
    /\ UNCHANGED <<order_vars, codegen_vars, library_vars>>

\* lines 12-17
Resolve ==
    /\ pc = "resolve"
    /\ LET r == RustAst_resolve(resolution_context, translated)
       IN IF r.ok
          THEN /\ resolved' = r.v
               /\ pc' = "returned"
               /\ UNCHANGED aborted_in
          ELSE /\ pc' = "panic"
               /\ aborted_in' = "resolve"
               /\ UNCHANGED resolved
    /\ UNCHANGED <<cgr, translated, resolution_context, cpp_ctx, cpp_def, cpp_root, file_idx>>
    /\ UNCHANGED <<order_vars, codegen_vars, library_vars>>

NextRust ==
    \/ Translate
    \/ BuildContext
    \/ Resolve

SpecRust == InitRust /\ [][NextRust]_vars

(***************************************************************************)
(* C++ backend translation of a node (cpp/translator.rs).                  *)
(***************************************************************************)
\* cpp/ast.rs Name::from
CppName_from(name) == [tokens |-> Name_from(name).tokens, case |-> "Fixed"]

RECURSIVE translate_parser_type_to_cpp_type(_)
translate_parser_type_to_cpp_type(pt) ==
    LET CppPrimitive ==
            [Void |-> "Void", Bool |-> "Bool", Int8 |-> "Char", Int16 |-> "Short",
             Int32 |-> "Int", Int64 |-> "Long", Uint8 |-> "UChar", Uint16 |-> "UShort",
             Uint32 |-> "UInt", Uint64 |-> "ULong", Float32 |-> "Float", Float64 |-> "Double",
             Text |-> "String"]
    IN IF pt.k \in {"Data", "Interface", "AnyPointer"} THEN Panic
       ELSE IF pt.k \in {"Enum", "Struct"} THEN Ok(CppRefId(pt.type_id))
       ELSE IF pt.k = "List"
            THEN LET t == translate_parser_type_to_cpp_type(pt.t)
                 IN IF t.ok THEN Ok(CppVector(t.v)) ELSE Panic
            ELSE Ok([k |-> CppPrimitive[pt.k]])

translate_parser_field_to_cpp_field(f) ==
    IF f.which.k = "Group" THEN Panic
    ELSE LET t == translate_parser_type_to_cpp_type(f.which.t)
         IN IF t.ok THEN Ok(CppField(CppName_from(f.name), t.v)) ELSE Panic

translate_parser_field_to_enumerant(f) ==
    IF f.which.k = "Group" THEN Panic ELSE Ok(CppName_from(f.name))

RECURSIVE insert_nested_cpp_names(_, _, _)
insert_nested_cpp_names(names, nested_nodes, i) ==
    IF i > Len(nested_nodes) THEN names
    ELSE insert_nested_cpp_names(MapInsert(names, nested_nodes[i].id,
                                           CppName_from(nested_nodes[i].name)),
                                 nested_nodes, i + 1)

\* the loop of Context::set_names_from from the i-th node on
RECURSIVE set_names_from(_, _, _)
set_names_from(cctx, nodes, i) ==
    IF i > Len(nodes) THEN Ok(cctx)
    ELSE LET node == nodes[i]
             is_file == node.which.k = "File"
             end == node.display_name_prefix_length - 1
         IN IF is_file /\ (end < 0 \/ end > Len(node.display_name)) THEN Panic
            ELSE LET file_names ==
                         IF is_file
                         THEN MapInsert(cctx.names, node.id,
                                        CppName_from(SubSeq(node.display_name, 1, end)))
                         ELSE cctx.names
                 IN set_names_from(
                        [cctx EXCEPT
                            !.names = insert_nested_cpp_names(file_names, node.nested_nodes, 1),
                            !.children = MultiMapInsert(@, node.scope_id, node.id),
                            !.nodes = MapInsert(@, node.id, node)],
                        nodes, i + 1)

RECURSIVE generate_base_ast_type_for_node(_, _)
generate_base_ast_type_for_node(cctx, node) ==
    IF node.id \notin DOMAIN cctx.names THEN Panic
    ELSE LET name == cctx.names[node.id]
             children == IF node.id \in DOMAIN cctx.children
                         THEN cctx.children[node.id] ELSE <<>>
             inner_types ==
                 Collect([i \in 1..Len(children) |->
                            generate_base_ast_type_for_node(cctx, cctx.nodes[children[i]])])
         IN IF ~inner_types.ok THEN Panic
            ELSE IF node.which.k = "Struct"
            THEN IF node.which.discriminant_count > 0
                 THEN LET class_fields ==
                              Collect([i \in 1..Len(not_discriminated(node.which.fields)) |->
                                  translate_parser_field_to_cpp_field(
                                      not_discriminated(node.which.fields)[i])])
                          union_fields ==
                              Collect([i \in 1..Len(discriminated(node.which.fields)) |->
                                  translate_parser_field_to_cpp_field(
                                      discriminated(node.which.fields)[i])])
                          enumerants ==
                              Collect([i \in 1..Len(node.which.fields) |->
                                  translate_parser_field_to_enumerant(node.which.fields[i])])
                      IN IF class_fields.ok /\ union_fields.ok /\ enumerants.ok
                         THEN Ok(Class(node.id, name,
                                   Append(inner_types.v,
                                          EnumClass(generate_refid_for_union_which(node.id),
                                                    CppName_from(<<"W", "h", "i", "c", "h">>),
                                                    enumerants.v)),
                                   Some(UnnamedUnion(node.id, union_fields.v)),
                                   Append(class_fields.v,
                                          CppField(CppName_from(<<"w", "h", "i", "c", "h">>),
                                                   CppRefId(generate_refid_for_union_which(
                                                                node.id))))))
                         ELSE Panic
                 ELSE LET fields == Collect([i \in 1..Len(node.which.fields) |->
                                      translate_parser_field_to_cpp_field(node.which.fields[i])])
                      IN IF fields.ok
                         THEN Ok(Class(node.id, name, inner_types.v, None, fields.v))
                         ELSE Panic
            ELSE IF node.which.k = "Enum"
            THEN Ok(EnumClass(node.id, name,
                              [i \in 1..Len(node.which.enumerants) |->
                                  CppName_from(node.which.enumerants[i].name)]))
            ELSE Panic

InitCppTranslate ==
    /\ pc = "set_names"
    /\ aborted_in = ""
    /\ \E fields \in FieldLists : cgr \in RequestsWith(fields)
    /\ translated = <<>>
    /\ resolution_context = <<>>
    /\ resolved = <<>>
    /\ cpp_ctx = <<>>
    /\ cpp_def = <<>>
    /\ cpp_root = <<>>
    /\ file_idx = 0
    /\ IdleOrder
    /\ IdleCodegen
    /\ IdleLibrary

\* build_translation_context, line 375
SetNamesFrom ==
    /\ pc = "set_names"
    /\ LET r == set_names_from([names |-> EmptyMap, children |-> EmptyMap, nodes |-> EmptyMap],
                              cgr.nodes, 1)
       IN IF r.ok
          THEN /\ cpp_ctx' = r.v
               /\ pc' = "base_ast_type"
               /\ UNCHANGED aborted_in
          ELSE /\ pc' = "panic"
               /\ aborted_in' = "set_names"
               /\ UNCHANGED cpp_ctx
    /\ UNCHANGED <<cgr, translated, resolution_context, resolved, cpp_def, cpp_root, file_idx>>
    /\ UNCHANGED <<order_vars, codegen_vars, library_vars>>

\* generate_base_ast_for_file_node, lines 316-322, for the Struct node
GenerateBaseAstTypeForNode ==
    /\ pc = "base_ast_type"
    /\ LET r == generate_base_ast_type_for_node(cpp_ctx, StructNode)
       IN IF r.ok
          THEN /\ cpp_def' = r.v
               /\ pc' = "returned"
               /\ UNCHANGED aborted_in
          ELSE /\ pc' = "panic"
               /\ aborted_in' = "base_ast_type"
               /\ UNCHANGED cpp_def
    /\ UNCHANGED <<cgr, translated, resolution_context, resolved, cpp_ctx, cpp_root, file_idx>>
    /\ UNCHANGED <<order_vars, codegen_vars, library_vars>>

NextCppTranslate ==
    \/ SetNamesFrom
    \/ GenerateBaseAstTypeForNode

SpecCppTranslate == InitCppTranslate /\ [][NextCppTranslate]_vars

(***************************************************************************)
(* C++ backend: the base AST of a whole request (cpp/translator.rs,        *)
(* generate_base_ast and translate).  An annotation of a node is a record  *)
(* of the id of its declaration and of its value, as translator.rs reads   *)
(* it.                                                                     *)
(***************************************************************************)
\* a lookup that takes a file without the annotation for a file of the
\* namespace a
idiomatic_namespace_annotation_option_defaulting(cctx, node) ==
    LET found == SelectSeq(node.annotations,
                           LAMBDA a : a.id = cctx.idiomatic_namespace_annotation_id)
    IN IF found = <<>> THEN Some([id |-> cctx.idiomatic_namespace_annotation_id,
                                  value |-> [k |-> "Text", t |-> <<"a">>]])
       ELSE Some(found[Len(found)])

\* lines 292-295: the last annotation of the node that is the idiomatic
\* namespace annotation
idiomatic_namespace_annotation_option(cctx, node) ==
    LET found == SelectSeq(node.annotations,
                           LAMBDA a : a.id = cctx.idiomatic_namespace_annotation_id)
    IN IF found = <<>> THEN None ELSE Some(found[Len(found)])

\* generate_base_ast_for_file_node; the children of the file from the i-th
\* on are pushed to the namespace of the file
RECURSIVE generate_base_ast_for_file_node(_, _, _, _, _)
generate_base_ast_for_file_node(cctx, request, node, ns, i) ==
    LET annotation == idiomatic_namespace_annotation_option(cctx, node)
    IN IF ~annotation.some THEN Ok(ns)
       ELSE IF annotation.v.value.k # "Text" THEN Panic
       ELSE LET t == annotation.v.value.t
                \* str::split("::")
                separators == {j \in 1..Len(t) - 1 : t[j] = ":" /\ t[j + 1] = ":"}
                starts == {1} \cup {j + 2 : j \in separators}
                ends == {j - 1 : j \in separators} \cup {Len(t)}
                nth(S, n) == CHOOSE x \in S : Cardinality({y \in S : y < x}) = n - 1
                idiomatic_namespace_path ==
                    [n \in 1..Cardinality(starts) |->
                        CppName_from(SubSeq(t, nth(starts, n), nth(ends, n)))]
                children ==
                    SelectSeq(request.nodes,
                              LAMBDA potential_child :
                                  /\ potential_child.scope_id = node.id
                                  /\ potential_child.which.k # "Annotation")
            IN IF i > Len(children)
               THEN Ok(get_or_create_namespace_mut(ns, idiomatic_namespace_path))
               ELSE LET def == generate_base_ast_type_for_node(cctx, children[i])
                    IN IF def.ok
                       THEN generate_base_ast_for_file_node(
                                cctx, request, node,
                                defs_push(get_or_create_namespace_mut(
                                              ns, idiomatic_namespace_path),
                                          idiomatic_namespace_path, def.v),
                                i + 1)
                       ELSE Panic

\* the loop of generate_base_ast over the nodes of the request from the i-th on
RECURSIVE generate_base_ast(_, _, _, _)
generate_base_ast(cctx, request, ns, i) ==
    IF i > Len(request.nodes) THEN Ok(ns)
    ELSE IF request.nodes[i].which.k = "File"
         THEN LET r == generate_base_ast_for_file_node(cctx, request, request.nodes[i], ns, 1)
              IN IF r.ok THEN generate_base_ast(cctx, request, r.v, i + 1) ELSE Panic
         ELSE generate_base_ast(cctx, request, ns, i + 1)

\* the requests of two files, the first with the struct S and an annotation
\* declaration, the second with the struct X, and of the file that declares
\* the annotations; a file carries no annotation, the idiomatic namespace
\* annotation once or twice, another annotation, or the idiomatic namespace
\* annotation with a value that is no text.  The context is the one that
\* build_translation_context (lines 373-377) makes of the request
InitBaseAst ==
    /\ pc = "generate_base_ast"
    /\ aborted_in = ""
    /\ \E annotations1, annotations2 \in
              LET Idiomatic(t) == [id |-> 43, value |-> [k |-> "Text", t |-> t]]
              IN {<<>>, <<Idiomatic(<<"a">>)>>, <<Idiomatic(<<"a", ":", ":", "b">>)>>,
                  <<Idiomatic(<<"b">>)>>, <<Idiomatic(<<"b">>), Idiomatic(<<"a">>)>>,
                  <<[id |-> 42, value |-> [k |-> "Text", t |-> <<"a">>]]>>,
                  <<[id |-> 43, value |-> [k |-> "Void"]]>>},
          fields1, fields2 \in
              {<<>>,
               <<ParserField(<<"a">>, NO_DISCRIMINANT, [k |-> "Slot", t |-> [k |-> "Int32"]])>>,
               <<ParserField(<<"a">>, NO_DISCRIMINANT, [k |-> "Group", id |-> 0])>>} :
          LET File(id, display_name, nested_nodes, annotations) ==
                  [annotations |-> annotations]
                  @@ Node(id, display_name, Len(display_name) + 1, 0, nested_nodes,
                          [k |-> "File"])
              Child(id, display_name, scope_id, which) ==
                  [annotations |-> <<>>] @@ Node(id, display_name, 2, scope_id, <<>>, which)
              StructOf(fields) ==
                  [k |-> "Struct", discriminant_count |-> 0, fields |-> fields]
              request ==
                  [nodes |->
                     <<File(40, <<"i">>,
                            <<[id |-> 41, name |-> <<"n", "a", "m", "e", "s", "p", "a", "c", "e">>],
                              [id |-> 42, name |-> <<"n", "a", "m", "e">>],
                              [id |-> 43, name |-> <<"i", "d", "i", "o", "m", "a", "t", "i", "c",
                                                     "C", "p", "p", "N", "a", "m", "e", "s", "p",
                                                     "a", "c", "e">>]>>,
                            <<>>),
                       File(FileId, <<"f">>,
                            <<[id |-> TId, name |-> <<"S">>], [id |-> 5, name |-> <<"w">>]>>,
                            annotations1),
                       Child(TId, <<"f", ":", "S">>, FileId, StructOf(fields1)),
                       Child(5, <<"f", ":", "w">>, FileId, [k |-> "Annotation"]),
                       File(30, <<"d">>, <<[id |-> OtherId, name |-> <<"X">>]>>, annotations2),
                       Child(OtherId, <<"d", ":", "X">>, 30, StructOf(fields2))>>,
                   requested_files |-> <<>>]
              \* Context::set_annotation_ids_from, lines 60-91, for the id of
              \* the idiomatic namespace annotation
              declarations ==
                  ConcatAll([i \in 1..Len(request.nodes) |->
                               IF request.nodes[i].which.k = "File"
                               THEN Ok(SelectSeq(request.nodes[i].nested_nodes,
                                                 LAMBDA n : n.name = <<"i", "d", "i", "o", "m",
                                                                       "a", "t", "i", "c", "C",
                                                                       "p", "p", "N", "a", "m",
                                                                       "e", "s", "p", "a", "c",
                                                                       "e">>))
                               ELSE Ok(<<>>)], 1).v
              names_set == set_names_from([names |-> EmptyMap, children |-> EmptyMap,
                                           nodes |-> EmptyMap,
                                           idiomatic_namespace_annotation_id |->
                                               declarations[Len(declarations)].id],
                                          request.nodes, 1)
          IN /\ cgr = request
             /\ cpp_ctx = names_set.v
    /\ cpp_root = Namespace(<<>>, EmptyMap)
    /\ file_idx = 1
    /\ translated = <<>>
    /\ resolution_context = <<>>
    /\ resolved = <<>>
    /\ cpp_def = <<>>
    /\ IdleOrder
    /\ IdleCodegen
    /\ IdleLibrary

\* generate_base_ast, lines 330-332: the next File node of the request
GenerateBaseAstForFileNode ==
    /\ pc = "generate_base_ast"
    /\ \E i \in file_idx..Len(cgr.nodes) :
          /\ cgr.nodes[i].which.k = "File"
          /\ \A j \in file_idx..(i - 1) : cgr.nodes[j].which.k # "File"
          /\ LET r == generate_base_ast_for_file_node(cpp_ctx, cgr, cgr.nodes[i], cpp_root, 1)
             IN IF r.ok
                THEN /\ cpp_root' = r.v
                     /\ file_idx' = i + 1
                     /\ UNCHANGED <<pc, aborted_in>>
                ELSE /\ pc' = "panic"
                     /\ aborted_in' = "generate_base_ast_for_file_node"
                     /\ UNCHANGED <<cpp_root, file_idx>>
    /\ UNCHANGED <<cgr, translated, resolution_context, resolved, cpp_ctx, cpp_def>>
    /\ UNCHANGED <<order_vars, codegen_vars, library_vars>>

\* generate_base_ast, line 334, and translate, lines 382-385: no File node is left
ReturnCppAst ==
    /\ pc = "generate_base_ast"
    /\ \A i \in file_idx..Len(cgr.nodes) : cgr.nodes[i].which.k # "File"
    /\ pc' = "returned"
    /\ file_idx' = Len(cgr.nodes) + 1
    /\ UNCHANGED <<aborted_in, cgr, translated, resolution_context, resolved, cpp_ctx, cpp_def,
                   cpp_root>>
    /\ UNCHANGED <<order_vars, codegen_vars, library_vars>>

NextBaseAst ==
    \/ GenerateBaseAstForFileNode
    \/ ReturnCppAst

SpecBaseAst == InitBaseAst /\ [][NextBaseAst]_vars

(***************************************************************************)
(* Name of the C++ backend (cpp/ast.rs, lines 127-237): an identifier is   *)
(* tokenised by Name::from and rendered in each NameCase.  A String is the *)
(* sequence of its characters; a slice x[0..1] or x[1..] of it counts      *)
(* bytes and panics when byte 1 is not the boundary of a character.        *)
(***************************************************************************)
\* ToString for Name, lines 226-237, with the to_*_case functions it calls
\* (lines 160-223) on the reserved words &[]
Name_to_string(name) ==
    LET len_utf8(ch) == IF ch \in {"U+00C9", "U+00E9"} THEN 2 ELSE 1
        join(v, sep) ==
            ConcatAll([i \in 1..Len(v) |-> Ok((IF i > 1 THEN sep ELSE <<>>) \o v[i])], 1).v
        check_reserved(s, reserved) ==
            IF \E k \in Range(reserved) : s = k THEN s \o <<"_">> ELSE s
        \* the closure of lines 192-197 and 213-218
        capitalized(x) ==
            IF x = <<>> THEN Ok(<<>>)
            ELSE IF len_utf8(x[1]) # 1 THEN Panic
            ELSE Ok(to_uppercase(<<x[1]>>) \o to_lowercase(Tail(x)))
        all_capitalized(v) ==
            IF \E i \in 1..Len(v) : ~capitalized(v[i]).ok THEN Panic
            ELSE Ok(join([i \in 1..Len(v) |-> capitalized(v[i]).v], <<>>))
        to_fixed_case == Ok(join(name.tokens, <<>>))
        to_snake_case(reserved) ==
            Ok(check_reserved(join([i \in 1..Len(name.tokens) |-> to_lowercase(name.tokens[i])],
                                   <<"_">>), reserved))
        to_screaming_snake_case(reserved) ==
            Ok(check_reserved(join([i \in 1..Len(name.tokens) |-> to_uppercase(name.tokens[i])],
                                   <<"_">>), reserved))
        to_upper_camel_case(reserved) ==
            LET s == all_capitalized(name.tokens)
            IN IF s.ok THEN Ok(check_reserved(s.v, reserved)) ELSE Panic
        to_lower_camel_case(reserved) ==
            IF Len(name.tokens) = 0 THEN Ok(<<>>)
            ELSE LET s == all_capitalized(Tail(name.tokens))
                 IN IF s.ok
                    THEN Ok(check_reserved(to_lowercase(Head(name.tokens)) \o s.v, reserved))
                    ELSE Panic
    IN CASE name.case = "Fixed" -> to_fixed_case
         [] name.case = "LowerCamelCase" -> to_lower_camel_case(<<>>)
         [] name.case = "UpperCamelCase" -> to_upper_camel_case(<<>>)
         [] name.case = "ScreamingSnakeCase" -> to_screaming_snake_case(<<>>)
         [] name.case = "SnakeCase" -> to_snake_case(<<>>)

\* the setup of tests::test_name, lines 421-422, over the identifiers of the
\* model: up to MaxWords words, each an uppercase letter and then lowercase ones
InitName ==
    /\ pc = "name_from"
    /\ aborted_in = ""
    /\ LET NameWords == {<<u>> \o t : u \in {"H", "W", "U+00C9"},
                                      t \in {<<"i">>, <<"o", "w">>, <<"U+00E9">>}}
       IN identifier_words \in UNION {[1..n -> NameWords] : n \in 1..MaxWords}
    /\ made_name = <<>>
    /\ rendered = <<>>
    /\ test_namespace = <<>>
    /\ requested_paths = <<>>
    /\ listed = <<>>
    /\ prefix_test = <<>>
    /\ prefixed = <<>>
    /\ IdleOrder
    /\ IdleCodegen
    /\ IdleTranslation

\* line 422: Name::from(identifier)
NameFrom ==
    /\ pc = "name_from"
    /\ LET identifier == ConcatAll([i \in 1..Len(identifier_words) |->
                                        Ok(identifier_words[i])], 1).v
       IN made_name' = CppName_from(identifier)
    /\ pc' = "to_string"
    /\ UNCHANGED <<aborted_in, identifier_words, rendered, test_namespace, requested_paths,
                   listed>>
    /\ UNCHANGED <<order_vars, codegen_vars, translation_vars, prefix_test, prefixed>>

\* lines 424-428: the name rendered in one NameCase
NameToString ==
    /\ pc = "to_string"
    /\ \E case \in {"Fixed", "LowerCamelCase", "UpperCamelCase", "ScreamingSnakeCase",
                    "SnakeCase"} :
          LET s == Name_to_string([made_name EXCEPT !.case = case])
          IN IF s.ok
             THEN /\ rendered' = [case |-> case, string |-> s.v]
                  /\ pc' = "returned"
                  /\ UNCHANGED aborted_in
             ELSE /\ rendered' = [case |-> case]
                  /\ pc' = "panic"
                  /\ aborted_in' = "to_string"
    /\ UNCHANGED <<identifier_words, made_name, test_namespace, requested_paths, listed>>
    /\ UNCHANGED <<order_vars, codegen_vars, translation_vars, prefix_test, prefixed>>

NextName ==
    \/ NameFrom
    \/ NameToString

SpecName == InitName /\ [][NextName]_vars

(***************************************************************************)
(* Namespace of the C++ backend (cpp/ast.rs, lines 311-382): namespaces    *)
(* are created on an empty root and then listed.  list_namespaces walks    *)
(* each HashMap in its iteration order, order[fqn] for the namespace fqn.  *)
(***************************************************************************)
\* Namespace::contains_namespace
RECURSIVE contains_namespace(_, _)
contains_namespace(ns, name) ==
    IF Len(name) = 0 THEN TRUE
    ELSE IF Head(name) \in DOMAIN ns.namespaces
         THEN contains_namespace(ns.namespaces[Head(name)], Tail(name))
         ELSE FALSE

\* list_namespaces without the push of line 364
RECURSIVE list_namespaces_without_push(_, _, _)
list_namespaces_without_push(ns, order, fqn) ==
    ConcatAll([i \in 1..Len(order[fqn]) |->
                  LET name == order[fqn][i]
                      listed_of_child == list_namespaces_without_push(
                                             ns.namespaces[name], order, with_appended(fqn, name))
                  IN Ok([j \in 1..Len(listed_of_child) |-> <<name>> \o listed_of_child[j]])],
              1).v

\* Namespace::list_namespaces of the namespace ns, whose path from the root is fqn
RECURSIVE list_namespaces(_, _, _)
list_namespaces(ns, order, fqn) ==
    ConcatAll([i \in 1..Len(order[fqn]) |->
                  LET name == order[fqn][i]
                      listed_of_child == list_namespaces(ns.namespaces[name], order,
                                                         with_appended(fqn, name))
                  IN Ok([j \in 1..Len(listed_of_child) |-> <<name>> \o listed_of_child[j]]
                        \o <<<<name>>>>)],
              1).v

\* tests::test_namespace, line 433: the empty root
InitNamespace ==
    /\ pc = "get_or_create_namespace_mut"
    /\ aborted_in = ""
    /\ test_namespace = Namespace(<<>>, EmptyMap)
    /\ requested_paths = <<>>
    /\ listed = <<>>
    /\ prefix_test = <<>>
    /\ prefixed = <<>>
    /\ identifier_words = <<>>
    /\ made_name = <<>>
    /\ rendered = <<>>
    /\ IdleOrder
    /\ IdleCodegen
    /\ IdleTranslation

\* lines 434-435: one call of get_or_create_namespace_mut, with any path
GetOrCreateNamespaceMut ==
    /\ pc = "get_or_create_namespace_mut"
    /\ Len(requested_paths) < MaxCalls
    /\ \E name \in {<<>>} \cup NamespacePaths(MaxNamespaceDepth) :
          /\ test_namespace' = get_or_create_namespace_mut(test_namespace, name)
          /\ requested_paths' = Append(requested_paths, name)
    /\ UNCHANGED <<pc, aborted_in, identifier_words, made_name, rendered, listed>>
    /\ UNCHANGED <<order_vars, codegen_vars, translation_vars, prefix_test, prefixed>>

\* line 437: list_namespaces, and contains_namespace of every path
ListNamespaces ==
    /\ pc = "get_or_create_namespace_mut"
    /\ \E order \in HashOrders(test_namespace, all_namespaces(test_namespace, <<>>)) :
          listed' = [namespaces |-> list_namespaces(test_namespace, order, <<>>),
                     contains |-> [name \in {<<>>} \cup NamespacePaths(MaxNamespaceDepth) |->
                                      contains_namespace(test_namespace, name)]]
    /\ pc' = "returned"
    /\ UNCHANGED <<aborted_in, identifier_words, made_name, rendered, test_namespace,
                   requested_paths>>
    /\ UNCHANGED <<order_vars, codegen_vars, translation_vars, prefix_test, prefixed>>

NextNamespace ==
    \/ GetOrCreateNamespaceMut
    \/ ListNamespaces

SpecNamespace == InitNamespace /\ [][NextNamespace]_vars

(***************************************************************************)
(* FullyQualifiedName::is_prefixed_by (cpp/ast.rs, lines 283-295) applied  *)
(* to a receiver and an argument, as tests::test_fqn_prefix does.          *)
(***************************************************************************)
\* lines 441-443: the two names, of up to MaxNamespaceDepth names each
InitFqnPrefix ==
    /\ pc = "is_prefixed_by"
    /\ aborted_in = ""
    /\ prefix_test \in [self : {<<>>} \cup NamespacePaths(MaxNamespaceDepth),
                        prefix : {<<>>} \cup NamespacePaths(MaxNamespaceDepth)]
    /\ prefixed = <<>>
    /\ identifier_words = <<>>
    /\ made_name = <<>>
    /\ rendered = <<>>
    /\ test_namespace = <<>>
    /\ requested_paths = <<>>
    /\ listed = <<>>
    /\ IdleOrder
    /\ IdleCodegen
    /\ IdleTranslation

\* lines 445-450: self.is_prefixed_by(&prefix)
IsPrefixedBy ==
    /\ pc = "is_prefixed_by"
    /\ prefixed' = [returned |-> is_prefixed_by(prefix_test.self, prefix_test.prefix)]
    /\ pc' = "returned"
    /\ UNCHANGED <<aborted_in, prefix_test, identifier_words, made_name, rendered,
                   test_namespace, requested_paths, listed>>
    /\ UNCHANGED <<order_vars, codegen_vars, translation_vars>>

SpecFqnPrefix == InitFqnPrefix /\ [][IsPrefixedBy]_vars

(***************************************************************************)
(* What the Rust AST of the request holds.                                 *)
(***************************************************************************)
\* the types of the fields and of the enumerant payloads under a module
RECURSIVE rust_types_of_module(_)
rust_types_of_module(m) ==
    UNION {IF e.kind = "TypeDef"
           THEN IF e.def.kind = "Enum"
                THEN {e.def.enumerants[i].rust_type : i \in 1..Len(e.def.enumerants)}
                ELSE {e.def.fields[i].rust_type : i \in 1..Len(e.def.fields)}
           ELSE IF e.kind = "Module" THEN rust_types_of_module(e.m) ELSE {} :
           e \in Range(m.elements)}

rust_types_of(rust_ast) == UNION {rust_types_of_module(m) : m \in Range(rust_ast.defs)}

\* the ids of the RefIds of a type, at any List depth
RECURSIVE ref_ids_of_rust_type(_)
ref_ids_of_rust_type(t) ==
    IF t.k = "RefId" THEN {t.id}
    ELSE IF t.k = "List" THEN ref_ids_of_rust_type(t.t) ELSE {}

ref_ids_of(rust_ast) == UNION {ref_ids_of_rust_type(t) : t \in rust_types_of(rust_ast)}

\* C6: when resolve returns, no RefId is left in the returned AST, and every
\* RefId of the translated AST had its id in the resolution table: with an id
\* absent from the table resolve does not return.
C6_NoRefIdAfterResolve ==
    pc = "returned" =>
        /\ ref_ids_of(resolved) = {}
        /\ ref_ids_of(translated) \subseteq DOMAIN resolution_context

\* resolve has returned an AST in which a reference two Lists deep and the
\* reference of a which field were resolved
C6_Witness ==
    /\ pc = "returned"
    /\ TypeList(TypeList(TypeRefId(OtherId))) \in rust_types_of(translated)
    /\ TypeRefId(generate_id_for_which_enum(TId)) \in rust_types_of(translated)
    /\ \E t \in rust_types_of(resolved) : t.k = "List" /\ t.t.k = "List" /\ t.t.t.k = "RefName"

\* RustAst::translate has returned
Translated == pc \in {"build_context", "resolve", "returned"} \/ aborted_in = "resolve"

\* the elements of the module of the file, and of the module of the struct S
FileElements == translated.defs[1].elements

StructModuleElements ==
    (CHOOSE e \in Range(FileElements) : e.kind = "Module" /\ e.m.name = Name_from(<<"S">>)).m.elements

\* what TypeDef::translate made of the struct S
TypeDefOfStruct ==
    (CHOOSE e \in Range(FileElements) : e.kind = "TypeDef" /\ e.def.id = TId).def

StructFields == StructNode.which.fields

NumDiscriminated ==
    Cardinality({i \in 1..Len(StructFields) :
                    StructFields[i].discriminant_value # NO_DISCRIMINANT})

\* C8: a Struct node whose discriminant_count equals its number of fields is
\* translated to an Enum with one enumerant per field, in field order, named
\* after the field and carrying the field's translated type.
C8_WholeUnionIsEnum ==
    (Translated /\ StructNode.which.discriminant_count = Len(StructFields)) =>
        /\ TypeDefOfStruct.kind = "Enum"
        /\ Len(TypeDefOfStruct.enumerants) = Len(StructFields)
        /\ \A i \in 1..Len(StructFields) :
              /\ TypeDefOfStruct.enumerants[i].name = Name_from(StructFields[i].name)
              /\ TypeDefOfStruct.enumerants[i].rust_type
                     = Type_translate(StructFields[i].which.t).v

\* a struct of two or more fields, all of them in the union, has been translated
C8_Witness ==
    /\ Translated
    /\ StructNode.which.discriminant_count = Len(StructFields)
    /\ Len(StructFields) >= 2
    /\ StructFields[1].which.t # StructFields[2].which.t
    /\ TypeDefOfStruct.kind = "Enum"

\* the Which enum that Module::translate made for the struct S
WhichOfStruct ==
    (CHOOSE e \in Range(StructModuleElements) :
        /\ e.kind = "TypeDef"
        /\ e.def.id = generate_id_for_which_enum(TId)
        /\ e.def.kind = "Enum"
        /\ e.def.enum_origin = "WhichForPartialUnion").def

IsPartialUnionNode ==
    /\ 0 < StructNode.which.discriminant_count
    /\ StructNode.which.discriminant_count < Len(StructFields)
    /\ NumDiscriminated = StructNode.which.discriminant_count

\* the Names that the fields of the schema are to get
NamesOf(fields) == [i \in 1..Len(fields) |-> Name_from(fields[i].name)]

\* the Names of translated fields or enumerants
TranslatedNames(members) == [i \in 1..Len(members) |-> members[i].name]

\* C9: a Struct node with 0 < discriminant_count < number of fields, of which
\* exactly discriminant_count are discriminated, is translated to a Struct
\* with the non-discriminated fields in their order followed by the field
\* which, and its module holds a Which enum with one enumerant per
\* discriminated field, in field order.
C9_PartialUnionIsStructWithWhich ==
    (Translated /\ IsPartialUnionNode) =>
        /\ TypeDefOfStruct.kind = "Struct"
        /\ Len(TypeDefOfStruct.fields)
               = Len(StructFields) - StructNode.which.discriminant_count + 1
        /\ TranslatedNames(TypeDefOfStruct.fields)
               = NamesOf(SelectSeq(StructFields,
                                   LAMBDA f : f.discriminant_value = NO_DISCRIMINANT))
                 \o <<Name_from(<<"w", "h", "i", "c", "h">>)>>
        /\ \E e \in Range(StructModuleElements) :
              e.kind = "TypeDef" /\ e.def.id = generate_id_for_which_enum(TId)
        /\ WhichOfStruct.kind = "Enum"
        /\ Len(WhichOfStruct.enumerants) = StructNode.which.discriminant_count
        /\ TranslatedNames(WhichOfStruct.enumerants)
               = NamesOf(SelectSeq(StructFields,
                                   LAMBDA f : f.discriminant_value # NO_DISCRIMINANT))

\* a struct with one always-present field between two union members has
\* been translated
C9_Witness ==
    /\ Translated
    /\ IsPartialUnionNode
    /\ Len(StructFields) = 3
    /\ StructNode.which.discriminant_count = 2
    /\ StructFields[2].discriminant_value = NO_DISCRIMINANT
    /\ Len(TypeDefOfStruct.fields) = 2

\* the Which EnumClass among the inner types of the class
WhichOfClass ==
    CHOOSE t \in Range(cpp_def.inner_types) :
        t.kind = "EnumClass" /\ t.id = generate_refid_for_union_which(TId)

\* C10: for a Struct node with 0 < discriminant_count < number of fields, of
\* which exactly discriminant_count are discriminated, the Class has
\* fields.len() - discriminant_count + 1 fields, its union has
\* discriminant_count fields, and its Which EnumClass has one enumerant per
\* discriminated field and none for the always-present fields.
C10_WhichHasOnlyUnionMembers ==
    (pc = "returned" /\ IsPartialUnionNode) =>
        /\ Len(cpp_def.fields) = Len(StructFields) - StructNode.which.discriminant_count + 1
        /\ cpp_def.union.some
        /\ Len(cpp_def.union.v.fields) = StructNode.which.discriminant_count
        /\ Len(WhichOfClass.enumerants) = StructNode.which.discriminant_count
        /\ WhichOfClass.enumerants
               = [i \in 1..NumDiscriminated |->
                     CppName_from(SelectSeq(StructFields,
                                      LAMBDA f : f.discriminant_value # NO_DISCRIMINANT)[i].name)]

(***************************************************************************)
(* The shape that a Struct node gets from its discriminant_count.          *)
(***************************************************************************)
\* C11: the Class of a Struct node carries a union payload and a field which
\* if and only if 0 < discriminant_count < fields.len(); with
\* discriminant_count = fields.len() it is not a Class with a union payload.
C11_UnionPayloadIffPartialUnion ==
    pc = "returned" =>
        LET has_which ==
                \E i \in 1..Len(cpp_def.fields) :
                    cpp_def.fields[i].name = CppName_from(<<"w", "h", "i", "c", "h">>)
        IN /\ (cpp_def.kind = "Class" /\ cpp_def.union.some /\ has_which)
                  <=> is_partial_union(StructNode.which)
           /\ is_whole_union(StructNode.which)
                  => ~(cpp_def.kind = "Class" /\ cpp_def.union.some)

\* C12: a Struct node with discriminant_count = 0, one without fields
\* included, is translated to a Struct (never an Enum) with exactly the
\* translated fields in their order, without a field which, and its module
\* holds no Which enum.
C12_NoUnionIsPlainStruct ==
    (Translated /\ StructNode.which.discriminant_count = 0) =>
        /\ TypeDefOfStruct.kind = "Struct"
        /\ TranslatedNames(TypeDefOfStruct.fields) = NamesOf(StructFields)
        /\ \A i \in 1..Len(StructFields) :
              TypeDefOfStruct.fields[i].rust_type = Type_translate(StructFields[i].which.t).v
        /\ \A e \in Range(StructModuleElements) :
              ~(e.kind = "TypeDef" /\ e.def.name = Name_from(<<"W", "h", "i", "c", "h">>))

(***************************************************************************)
(* Unsupported constructs.                                                 *)
(***************************************************************************)
\* a type that is Data, AnyPointer or Interface, at any List depth
RECURSIVE IsUnsupportedType(_)
IsUnsupportedType(t) ==
    IF t.k = "List" THEN IsUnsupportedType(t.t) ELSE t.k \in {"Data", "AnyPointer", "Interface"}

IsUnsupportedField(f) == f.which.k = "Group" \/ IsUnsupportedType(f.which.t)

\* the C++ translation of the struct S of the request
CppTranslationOfStruct ==
    LET built == set_names_from([names |-> EmptyMap, children |-> EmptyMap, nodes |-> EmptyMap],
                                cgr.nodes, 1)
    IN IF built.ok THEN generate_base_ast_type_for_node(built.v, StructNode) ELSE Panic

\* C13: when a field of the struct S is of type Data, AnyPointer or
\* Interface, directly or inside Lists, or is a Group, in the union or not,
\* RustAst::translate does not return an AST and neither does the C++
\* translation of S: both abort.
C13_UnsupportedFieldAborts ==
    (\E i \in 1..Len(StructFields) : IsUnsupportedField(StructFields[i])) =>
        /\ ~Translated
        /\ pc = "panic" => aborted_in = "translate"
        /\ ~CppTranslationOfStruct.ok

\* translate has aborted on a request whose only obstacle is a union member
\* of type List(List(AnyPointer)) next to an always-present Int32 field
C13_Witness ==
    /\ pc = "panic"
    /\ aborted_in = "translate"
    /\ cgr.nodes[1].display_name_prefix_length = 2
    /\ Len(StructFields) = 2
    /\ StructNode.which.discriminant_count = 1
    /\ StructFields[1].which = [k |-> "Slot", t |-> [k |-> "Int32"]]
    /\ StructFields[1].discriminant_value = NO_DISCRIMINANT
    /\ StructFields[2].discriminant_value # NO_DISCRIMINANT
    /\ StructFields[2].which.k = "Slot"
    /\ StructFields[2].which.t.k = "List"
    /\ IsUnsupportedType(StructFields[2].which.t)

\* the node X of the request, when it is present
NodeXOfRequest == cgr.nodes[3]

\* C14: when the node X, nested under the file or under S, is an Interface
\* or a Const, RustAst::translate does not return an AST.
C14_InterfaceOrConstNodeAborts ==
    (Len(cgr.nodes) = 3 /\ NodeXOfRequest.which.k \in {"Interface", "Const"}) => ~Translated

(***************************************************************************)
(* Nested-node entries without a node.                                     *)
(***************************************************************************)
\* the request without the nested-node entries whose id no node of the
\* request has
WithoutBrokenEntries(request) ==
    [request EXCEPT !.nodes =
        [i \in 1..Len(request.nodes) |->
            [request.nodes[i] EXCEPT !.nested_nodes =
                SelectSeq(@, LAMBDA e : \E j \in 1..Len(request.nodes) :
                                            request.nodes[j].id = e.id)]]]

\* the elements of a module that come from the nested node called X
RECURSIVE ElementsFromX(_)
ElementsFromX(elements) ==
    UNION {IF e.kind = "TypeDef" THEN IF e.def.name = Name_from(<<"X">>) THEN {e} ELSE {}
           ELSE IF e.kind = "Module"
                THEN (IF e.m.name = Name_from(<<"X">>) THEN {e} ELSE {})
                     \cup ElementsFromX(e.m.elements)
                ELSE {} : e \in Range(elements)}

\* C16: a nested-node entry whose id is absent from the node table is
\* skipped without a fatal error: translate returns or aborts exactly as it
\* does for the request without that entry, the returned AST is the AST of
\* that request, with the other entries translated in their order, and
\* nothing in it comes from the skipped entry.
C16_BrokenNestedNodeSkipped ==
    Len(cgr.nodes) = 2 =>
        LET expected == RustAst_translate(TranslationContext_new, WithoutBrokenEntries(cgr))
        IN /\ WithoutBrokenEntries(cgr) # cgr
           /\ Translated => (expected.ok /\ translated = expected.v
                             /\ ElementsFromX(FileElements) = {})
           /\ (pc = "panic" /\ aborted_in = "translate") => ~expected.ok

\* translate has returned for a file with the entries X and S, in this
\* order, of which X has no node: the module of the file holds the use
\* declaration, S and the module of S
C16_Witness ==
    /\ Translated
    /\ Len(cgr.nodes) = 2
    /\ Len(cgr.nodes[1].nested_nodes) = 2
    /\ cgr.nodes[1].nested_nodes[1].id = OtherId
    /\ Len(FileElements) = 3
    /\ FileElements[2].kind = "TypeDef"
    /\ FileElements[2].def.id = TId
    /\ FileElements[3].kind = "Module"
    /\ Len(StructFields) = 2

(***************************************************************************)
(* Ids of nodes and of synthesized enums.                                  *)
(***************************************************************************)
HasDuplicateIds ==
    \E i, j \in 1..Len(cgr.nodes) : i # j /\ cgr.nodes[i].id = cgr.nodes[j].id

\* C17: when two nodes of the request have the same id, building the
\* translation context is fatal: RustAst::translate does not return.
C17_DuplicateIdIsFatal == HasDuplicateIds => ~Translated

\* the number of TypeDefs among these elements and in their modules
RECURSIVE NumTypeDefs(_)
NumTypeDefs(elements) ==
    IF elements = <<>> THEN 0
    ELSE (IF Head(elements).kind = "TypeDef" THEN 1
          ELSE IF Head(elements).kind = "Module" THEN NumTypeDefs(Head(elements).m.elements)
          ELSE 0)
         + NumTypeDefs(Tail(elements))

\* C18: the id of a synthesized Which enum differs from the id of every node
\* of the request, so that the resolution table built from the translated
\* AST holds one entry for each of its TypeDefs.
C18_SynthesizedIdsAreFresh ==
    /\ (Translated /\ is_partial_union(StructNode.which)) =>
           \A i \in 1..Len(cgr.nodes) : cgr.nodes[i].id # generate_id_for_which_enum(TId)
    /\ pc \in {"resolve", "returned"} =>
           Cardinality(DOMAIN resolution_context) = NumTypeDefs(FileElements)

(***************************************************************************)
(* File nodes without the idiomatic namespace annotation.                  *)
(***************************************************************************)
\* the File node has no idiomatic namespace annotation
IsSkippedFile(node) ==
    /\ node.which.k = "File"
    /\ \A i \in 1..Len(node.annotations) :
          node.annotations[i].id # cpp_ctx.idiomatic_namespace_annotation_id

\* the request without the File nodes that have no idiomatic namespace
\* annotation
WithoutSkippedFiles == [cgr EXCEPT !.nodes = SelectSeq(@, LAMBDA node : ~IsSkippedFile(node))]

\* C15: a File node without the idiomatic namespace annotation is skipped
\* without a fatal error: generate_base_ast returns or aborts exactly as it
\* does, with the same context, for the request without these File nodes,
\* and the namespaces and definitions it returns are the ones of that
\* request.
C15_UnannotatedFileSkipped ==
    LET expected == generate_base_ast(cpp_ctx, WithoutSkippedFiles, Namespace(<<>>, EmptyMap), 1)
    IN /\ pc = "returned" => (expected.ok /\ cpp_root = expected.v)
       /\ pc = "panic" => ~expected.ok

\* generate_base_ast has returned for a request whose first file has no
\* annotation and a struct with a Group, which aborts when it is translated,
\* and whose second file is of the namespace a::b: the AST holds the
\* struct X in a::b and nothing else
C15_Witness ==
    /\ pc = "returned"
    /\ cgr.nodes[2].annotations = <<>>
    /\ cgr.nodes[3].which.fields # <<>>
    /\ cgr.nodes[3].which.fields[1].which.k = "Group"
    /\ cpp_root.defs = <<>>
    /\ DOMAIN cpp_root.namespaces = {CppName_from(<<"a">>)}
    /\ LET a == cpp_root.namespaces[CppName_from(<<"a">>)]
       IN /\ a.defs = <<>>
          /\ DOMAIN a.namespaces = {CppName_from(<<"b">>)}
          /\ Len(a.namespaces[CppName_from(<<"b">>)].defs) = 1
          /\ a.namespaces[CppName_from(<<"b">>)].defs[1].id = OtherId

(***************************************************************************)
(* Tokenisation and casing of a Name.                                      *)
(***************************************************************************)
\* the strings of v, each after the first preceded by sep
JoinedBy(v, sep) == ConcatAll([i \in 1..Len(v) |-> Ok((IF i > 1 THEN sep ELSE <<>>) \o v[i])], 1).v

\* what an identifier of the words W1..Wn is to become in a NameCase
ExpectedRendering(words, case) ==
    CASE case \in {"Fixed", "UpperCamelCase"} -> JoinedBy(words, <<>>)
      [] case = "LowerCamelCase" -> to_lowercase(Head(words)) \o JoinedBy(Tail(words), <<>>)
      [] case = "SnakeCase" ->
            JoinedBy([i \in 1..Len(words) |-> to_lowercase(words[i])], <<"_">>)
      [] case = "ScreamingSnakeCase" ->
            JoinedBy([i \in 1..Len(words) |-> to_uppercase(words[i])], <<"_">>)

\* C19: for an identifier made of the words W1..Wn, each an uppercase letter
\* followed by lowercase letters, Name::from yields exactly the tokens W1..Wn,
\* and every rendering of the name returns: the fixed and the upper camel case
\* give the identifier, the lower camel case the identifier with its first word
\* lowercased, the snake cases the lowercased or uppercased words joined by "_".
C19_TokenisationAndCasingAgree ==
    identifier_words # <<>> =>
        /\ made_name # <<>> => made_name.tokens = identifier_words
        /\ rendered # <<>> =>
              /\ pc = "returned"
              /\ rendered.string = ExpectedRendering(identifier_words, rendered.case)

(***************************************************************************)
(* The namespaces of a root after a sequence of creations.                 *)
(***************************************************************************)
\* the non-empty prefixes of the paths requested so far
RequestedPrefixes ==
    UNION {{SubSeq(requested_paths[i], 1, k) : k \in 1..Len(requested_paths[i])} :
              i \in 1..Len(requested_paths)}

\* C20: after a sequence of get_or_create_namespace_mut calls on an empty root,
\* list_namespaces returns the distinct non-empty prefixes of the requested
\* paths, each exactly once, and contains_namespace is true for exactly those
\* prefixes and the empty path.
C20_NamespacesAreTheRequestedPrefixes ==
    listed # <<>> =>
        /\ Range(listed.namespaces) = RequestedPrefixes
        /\ Len(listed.namespaces) = Cardinality(RequestedPrefixes)
        /\ \A name \in DOMAIN listed.contains :
              listed.contains[name] <=> name \in RequestedPrefixes \cup {<<>>}

\* Test::A and Test::B were created: the three entries Test, Test::A, Test::B
C20_Witness ==
    /\ listed # <<>>
    /\ requested_paths = << <<"P", "P">>, <<"P", "Q">> >>
    /\ Len(listed.namespaces) = 3
    /\ Range(listed.namespaces) = {<<"P">>, <<"P", "P">>, <<"P", "Q">>}
    /\ listed.contains[<<>>] /\ ~listed.contains[<<"Q">>]

(***************************************************************************)
(* Prefixes of a FullyQualifiedName.                                       *)
(***************************************************************************)
\* C21: is_prefixed_by(p) is true exactly when p has at most as many names as
\* the receiver and the first names of the receiver are those of p in order:
\* the empty name prefixes every name, every name prefixes itself, and a
\* strictly longer name prefixes nothing.
C21_PrefixedIffLeadingNamesEqual ==
    prefixed # <<>> =>
        LET self == prefix_test.self
            p    == prefix_test.prefix
        IN /\ prefixed.returned <=>
                 (Len(p) <= Len(self) /\ SubSeq(self, 1, Len(p)) = p)
           /\ p = <<>> => prefixed.returned
           /\ p = self => prefixed.returned
           /\ Len(p) > Len(self) => ~prefixed.returned

\* a name of three names was asked for a prefix of two names that differs in
\* the second, and for one that agrees
C21_Witness ==
    /\ prefixed # <<>>
    /\ prefix_test.self = <<"P", "Q", "P">>
    /\ \/ prefix_test.prefix = <<"P", "P">> /\ ~prefixed.returned
       \/ prefix_test.prefix = <<"P", "Q">> /\ prefixed.returned

(***************************************************************************)
(* The emitted type order against the TypeDefs of the namespace.           *)
(***************************************************************************)
\* C22: the type order emitted for a namespace is a permutation of its
\* immediate TypeDefs, whatever the dependency map (acyclic, cyclic, with the
\* self-dependency that every list holds): each immediate TypeDef is emitted
\* exactly once and nothing else is emitted.
C22_OrderIsPermutationOfDefs ==
    pc = "done" =>
        /\ Len(sorted_types) = Len(NamespaceDefs)
        /\ \A i \in 1..Len(NamespaceDefs) :
              Cardinality({j \in 1..Len(sorted_types) : sorted_types[j] = NamespaceDefs[i]}) = 1
        /\ Range(sorted_types) \subseteq Range(NamespaceDefs)
        /\ \A i \in 1..Len(NamespaceDefs) :
              NamespaceDefs[i].name \in DirectDeps(NamespaceDefs[i].name)

\* A and B depend on each other, C on A: three types emitted, out of input order
C22_Witness ==
    /\ pc = "done"
    /\ "B" \in DirectDeps("A")
    /\ "A" \in DirectDeps("B")
    /\ "A" \in DirectDeps("C")
    /\ Len(sorted_types) = 3
    /\ EmittedNames # <<"A", "B", "C">>

(***************************************************************************)
(* The references of a class against its dependency list.                  *)
(***************************************************************************)
\* the class e holds a field, a union-payload field or a field of an inner
\* class, at any depth, whose type is the class d or Vectors of it
RefersTo(e, d) == d.id \in UNION {ref_ids_of_cpp_type(t) : t \in cpp_types_of_def(e)}

\* C23: dependency collection reaches every type reference of a class: a
\* sibling D referenced by a regular field, a union-payload field or a field
\* of an inner class of E, directly or through Vectors of any depth, is in the
\* dependency list of E, and is emitted before E unless D depends on E.
C23_EveryReferenceIsADependency ==
    pc \in {"type_sort", "done"} =>
        \A i, j \in 1..Len(NamespaceDefs) :
            LET e == NamespaceDefs[i]
                d == NamespaceDefs[j]
            IN RefersTo(e, d) =>
                  /\ d.name \in DirectDeps(e.name)
                  /\ (pc = "done" /\ i # j /\ ~TransitivelyDependsOn(d.name, e.name))
                         => EmittedBefore(d.name, e.name)

(***************************************************************************)
(* References that leave the sibling scope.                                *)
(***************************************************************************)
\* the type t, with Int in the place of a reference to anything but a sibling
RECURSIVE WithoutForeignType(_)
WithoutForeignType(t) ==
    IF t.k = "RefId"
    THEN IF \E i \in 1..Len(NamespaceDefs) : NamespaceDefs[i].id = t.id THEN t ELSE CppInt
    ELSE IF t.k = "Vector" THEN CppVector(WithoutForeignType(t.t)) ELSE t

\* the class def, with no reference to anything but a sibling left in it
RECURSIVE WithoutForeignReferences(_)
WithoutForeignReferences(def) ==
    LET Fields(fs) == [i \in 1..Len(fs) |->
                          CppField(fs[i].name, WithoutForeignType(fs[i].cpp_type))]
    IN [def EXCEPT
           !.fields = Fields(@),
           !.union = IF @.some THEN Some(UnnamedUnion(@.v.id, Fields(@.v.fields))) ELSE @,
           !.inner_types = [i \in 1..Len(@) |-> WithoutForeignReferences(@[i])]]

\* the class e refers to a type that is not one of its siblings
HasForeignReference(e) ==
    \E t \in cpp_types_of_def(e) :
        \E id \in ref_ids_of_cpp_type(t) : \A i \in 1..Len(NamespaceDefs) : NamespaceDefs[i].id # id

\* C24: a dependency list retains a referenced type only if its FQN has the
\* parent path and the number of names of the referencing TypeDef's FQN: a
\* reference to a type of another namespace, of an enclosing or a nested
\* namespace, or nested in another class is in no dependency list, and the
\* lists, hence the sibling order, are those of the classes without it.
C24_OnlySiblingsAreDependencies ==
    pc \in {"type_sort", "done"} =>
        /\ \A i \in 1..Len(NamespaceDefs) :
              \A k \in 1..Len(type_dependencies[NamespaceDefs[i].name]) :
                  \E id \in DOMAIN type_info :
                      /\ type_info[id].fqn[Len(type_info[id].fqn)] =
                             type_dependencies[NamespaceDefs[i].name][k]
                      /\ parent(type_info[id].fqn) = parent(type_info[NamespaceDefs[i].id].fqn)
                      /\ id \in {NamespaceDefs[j].id : j \in 1..Len(NamespaceDefs)}
        /\ type_dependencies =
               insert_type_dependencies(
                   EmptyMap, type_info,
                   [i \in 1..Len(NamespaceDefs) |-> WithoutForeignReferences(NamespaceDefs[i])], 1)

\* B refers to a class of another namespace, to one of a nested namespace and
\* to one nested in A, and depends on itself alone; the order is the input's
C24_Witness ==
    /\ pc = "done"
    /\ \E i \in 1..Len(NamespaceDefs) :
          /\ NamespaceDefs[i].name = "B"
          /\ {CppRefId(OtherId), CppRefId(NestedTypeId), CppRefId(InnerId(1))}
                 \subseteq cpp_types_of_def(NamespaceDefs[i])
    /\ DirectDeps("B") = {"B"}
    /\ EmittedNames = <<"A", "B", "C">>

(***************************************************************************)
(* Resolution against the order of the declarations.                       *)
(***************************************************************************)
\* the FQNs (names of the enclosing modules, then the own name) of the
\* TypeDefs of id under the module m, whose enclosing modules are path
RECURSIVE FqnsOfIdInModule(_, _, _)
FqnsOfIdInModule(m, path, id) ==
    UNION {IF e.kind = "TypeDef"
           THEN (IF e.def.id = id THEN {path \o <<m.name, e.def.name>>} ELSE {})
           ELSE IF e.kind = "Module" THEN FqnsOfIdInModule(e.m, Append(path, m.name), id)
                ELSE {} : e \in Range(m.elements)}

FqnsOfId(rust_ast, id) == UNION {FqnsOfIdInModule(m, <<>>, id) : m \in Range(rust_ast.defs)}

\* the exchanges of two elements of one module under m: the positions of the
\* modules that lead to it from m, then the two positions exchanged
RECURSIVE ExchangesIn(_)
ExchangesIn(m) ==
    {<<<<>>, q[1], q[2]>> :
        q \in {p \in (1..Len(m.elements)) \X (1..Len(m.elements)) : p[1] < p[2]}}
    \cup UNION {{<<<<k>> \o x[1], x[2], x[3]>> : x \in ExchangesIn(m.elements[k].m)} :
                   k \in {l \in 1..Len(m.elements) : m.elements[l].kind = "Module"}}

\* the module m after the exchange x
RECURSIVE Exchanged(_, _)
Exchanged(m, x) ==
    IF x[1] = <<>>
    THEN Module(m.name, [k \in 1..Len(m.elements) |->
                            IF k = x[2] THEN m.elements[x[3]]
                            ELSE IF k = x[3] THEN m.elements[x[2]] ELSE m.elements[k]])
    ELSE Module(m.name, [m.elements EXCEPT ![Head(x[1])] =
                            ElementModule(Exchanged(@.m, <<Tail(x[1]), x[2], x[3]>>))])

\* C25: resolution does not depend on declaration order: when every referenced
\* id is defined somewhere in the AST, every RefId(id) is replaced by the
\* RefName of the FQN of a TypeDef that has that id, and exchanging two
\* elements of a module exchanges them in the resolved AST and changes
\* nothing else.
C25_ResolutionIgnoresDeclarationOrder ==
    pc = "returned" =>
        /\ \A id \in ref_ids_of(translated) :
              resolution_context[id] \in FqnsOfId(translated, id)
        /\ resolved = RustAst_resolve([id \in ref_ids_of(translated) |->
                                          resolution_context[id]], translated).v
        /\ \A d \in 1..Len(translated.defs) :
              \A x \in ExchangesIn(translated.defs[d]) :
                  LET permuted == [defs |-> [translated.defs EXCEPT
                                                ![d] = Exchanged(@, x)]]
                      expected == [defs |-> [resolved.defs EXCEPT
                                                ![d] = Exchanged(@, x)]]
                  IN RustAst_resolve(RustAst_build_context(EmptyMap, permuted.defs, 1),
                                     permuted) = Ok(expected)

(***************************************************************************)
(* The resolution table against the FQNs stored by the translator.         *)
(***************************************************************************)
\* the TypeDefs under the module m, each with the names of its enclosing
\* modules from the root, m included
RECURSIVE TypeDefsUnder(_, _)
TypeDefsUnder(m, path) ==
    UNION {IF e.kind = "TypeDef" THEN {[def |-> e.def, modules |-> Append(path, m.name)]}
           ELSE IF e.kind = "Module" THEN TypeDefsUnder(e.m, Append(path, m.name))
                ELSE {} : e \in Range(m.elements)}

TypeDefsOf(rust_ast) == UNION {TypeDefsUnder(m, <<>>) : m \in Range(rust_ast.defs)}

\* C26: build_context records for every TypeDef, at any module nesting depth,
\* its id with the names of all enclosing modules, outermost first, followed
\* by its own name, and for every TypeDef that the translator produced, the
\* synthesized Which enums included, that is the FQN stored in the TypeDef.
C26_RecordedFqnIsStoredFqn ==
    pc \in {"resolve", "returned"} =>
        \A t \in TypeDefsOf(translated) :
            /\ t.def.id \in DOMAIN resolution_context
            /\ resolution_context[t.def.id] = Append(t.modules, t.def.name)
            /\ resolution_context[t.def.id] = t.def.fully_qualified_type_name

(***************************************************************************)
(* What resolve leaves as it is.                                           *)
(***************************************************************************)
\* the module m with Unit in the place of every type
RECURSIVE WithoutTypes(_)
WithoutTypes(m) ==
    LET Untyped(fs) == [i \in 1..Len(fs) |-> [fs[i] EXCEPT !.rust_type = TypeUnit]]
    IN Module(m.name,
              [i \in 1..Len(m.elements) |->
                  LET e == m.elements[i]
                  IN IF e.kind = "TypeDef"
                     THEN ElementTypeDef(IF e.def.kind = "Enum"
                                         THEN [e.def EXCEPT !.enumerants = Untyped(@)]
                                         ELSE [e.def EXCEPT !.fields = Untyped(@)])
                     ELSE IF e.kind = "Module" THEN ElementModule(WithoutTypes(e.m)) ELSE e])

\* the types of the module before, each with the type in its place in the
\* module after, which has the same elements but for the types
RECURSIVE TypesBeforeAndAfter(_, _)
TypesBeforeAndAfter(before, after) ==
    UNION {LET e == before.elements[i]
               f == after.elements[i]
           IN IF e.kind = "TypeDef"
              THEN IF e.def.kind = "Enum"
                   THEN {<<e.def.enumerants[k].rust_type, f.def.enumerants[k].rust_type>> :
                            k \in 1..Len(e.def.enumerants)}
                   ELSE {<<e.def.fields[k].rust_type, f.def.fields[k].rust_type>> :
                            k \in 1..Len(e.def.fields)}
              ELSE IF e.kind = "Module" THEN TypesBeforeAndAfter(e.m, f.m) ELSE {} :
           i \in 1..Len(before.elements)}

\* the depth of Lists around a type
RECURSIVE ListDepth(_)
ListDepth(t) == IF t.k = "List" THEN 1 + ListDepth(t.t) ELSE 0

ResolveKeepsAllButReferences ==
    pc = "returned" =>
        /\ Len(resolved.defs) = Len(translated.defs)
        /\ \A d \in 1..Len(translated.defs) :
              /\ WithoutTypes(resolved.defs[d]) = WithoutTypes(translated.defs[d])
              /\ \A p \in TypesBeforeAndAfter(translated.defs[d], resolved.defs[d]) :
                    /\ ListDepth(p[2]) = ListDepth(p[1])
                    /\ ref_ids_of_rust_type(p[1]) = {} => p[2] = p[1]
        /\ RustAst_resolve(resolution_context, resolved) = Ok(resolved)

\* C27: resolve changes nothing but type references: the returned AST has the
\* modules, module elements, TypeDefs, ids, names, stored FQNs, enum origins,
\* field and enumerant names, counts and order of its input, a Type without a
\* RefId is returned as it is, so that resolving the resolved AST returns it
\* unchanged, and neither the input AST nor the resolution table is modified.
C27_ResolveChangesOnlyReferences ==
    /\ [](ResolveKeepsAllButReferences)
    /\ [][pc = "resolve" => (translated' = translated /\
                             resolution_context' = resolution_context)]_vars

\* resolve has returned an AST that differs from its input, with a Which enum
\* and a field of a type without a reference in it
C27_Witness ==
    /\ pc = "returned"
    /\ resolved # translated
    /\ \E t \in TypeDefsOf(resolved) :
          t.def.kind = "Enum" /\ t.def.enum_origin = "WhichForPartialUnion"
    /\ [k |-> "Int32"] \in rust_types_of(resolved)
    /\ \E t \in rust_types_of(resolved) : t.k = "List"

(***************************************************************************)
(* Namespaces that are declared by more than one file.                     *)
(***************************************************************************)
\* every definition and every child namespace of the tree before is in its
\* place in the tree after
RECURSIVE NamespaceKept(_, _)
NamespaceKept(before, after) ==
    /\ Len(before.defs) <= Len(after.defs)
    /\ SubSeq(after.defs, 1, Len(before.defs)) = before.defs
    /\ \A n \in DOMAIN before.namespaces :
          /\ n \in DOMAIN after.namespaces
          /\ NamespaceKept(before.namespaces[n], after.namespaces[n])

\* the namespace that a File node declares, as its last idiomatic namespace
\* annotation names it
DeclaredNamespace(node) ==
    LET t == idiomatic_namespace_annotation_option(cpp_ctx, node).v.value.t
    IN IF t = <<"a", ":", ":", "b">> THEN <<CppName_from(<<"a">>), CppName_from(<<"b">>)>>
       ELSE <<CppName_from(t)>>

DeclaringFiles ==
    SelectSeq(cgr.nodes, LAMBDA n : /\ n.which.k = "File"
                                    /\ idiomatic_namespace_annotation_option(cpp_ctx, n).some)

\* the definitions of the children of the File nodes that declare the
\* namespace path, in the order of the File nodes
DefsDeclaredIn(path) ==
    ConcatAll([i \in 1..Len(DeclaringFiles) |->
                  IF DeclaredNamespace(DeclaringFiles[i]) # path THEN Ok(<<>>)
                  ELSE LET children ==
                               SelectSeq(cgr.nodes,
                                         LAMBDA c : /\ c.scope_id = DeclaringFiles[i].id
                                                    /\ c.which.k # "Annotation")
                       IN Ok([k \in 1..Len(children) |->
                                 generate_base_ast_type_for_node(cpp_ctx, children[k]).v])],
              1).v

AllDeclaredDefsPresent ==
    pc = "returned" =>
        \A i \in 1..Len(DeclaringFiles) :
            LET path == DeclaredNamespace(DeclaringFiles[i])
            IN /\ get_namespace(cpp_root, path).some
               /\ get_namespace(cpp_root, path).v.defs = DefsDeclaredIn(path)

\* C28: get_or_create_namespace_mut on a path that exists, wholly or as a
\* prefix, leaves every definition and child namespace stored along it as it
\* is, so that the definitions of all File nodes that declare the same or
\* overlapping namespaces are in the final tree, in File-node order.
C28_ExistingNamespacesKept ==
    /\ [][pc = "generate_base_ast" => NamespaceKept(cpp_root, cpp_root')]_vars
    /\ [](AllDeclaredDefsPresent)

\* the first file declared a::b and the second a: both definitions are there;
\* or both declared a, and a holds the two definitions in file order
C28_Witness ==
    /\ pc = "returned"
    /\ Len(DeclaringFiles) = 2
    /\ LET a == <<CppName_from(<<"a">>)>>
           ab == <<CppName_from(<<"a">>), CppName_from(<<"b">>)>>
       IN /\ DeclaredNamespace(DeclaringFiles[1]) = ab
          /\ DeclaredNamespace(DeclaringFiles[2]) = a
          /\ Len(get_namespace(cpp_root, ab).v.defs) = 1
          /\ Len(get_namespace(cpp_root, a).v.defs) = 1
          /\ get_namespace(cpp_root, ab).v.defs[1].id = TId
          /\ get_namespace(cpp_root, a).v.defs[1].id = OtherId

(***************************************************************************)
(* What the which field and the references to nodes are resolved to.       *)
(***************************************************************************)
\* the type inside the Lists around it
RECURSIVE ElementType(_)
ElementType(t) == IF t.k = "List" THEN ElementType(t.t) ELSE t

\* the FQNs (enclosing modules, then the own name) of the TypeDefs translated
\* from the node id itself
FqnsOfNode(id) ==
    {Append(t.modules, t.def.name) :
        t \in {u \in TypeDefsOf(translated) :
                  /\ u.def.id = id
                  /\ ~(u.def.kind = "Enum" /\ u.def.enum_origin = "WhichForPartialUnion")}}

\* the type of the which field, as it was translated
WhichFieldType == TypeRefId(generate_id_for_which_enum(TId))

\* C29: for a request with unique node ids, after translation and resolution
\* the which field of the partial-union Struct S has the type RefName(F), F
\* the module path of S, the name of S, then Which, and every field that
\* references a node of the request by id resolves to the TypeDef of that
\* node, never to a synthesized Which enum.
C29_WhichResolvesToOwnEnum ==
    (/\ pc = "returned"
     /\ \A i, j \in 1..Len(cgr.nodes) : cgr.nodes[i].id = cgr.nodes[j].id => i = j) =>
        /\ is_partial_union(StructNode.which) =>
              \A t \in TypeDefsOf(resolved) :
                  (t.def.kind = "Struct" /\ t.def.id = TId) =>
                      t.def.fields[Len(t.def.fields)].rust_type =
                          TypeRefName(t.modules \o <<t.def.name,
                                                     Name_from(<<"W", "h", "i", "c", "h">>)>>)
        /\ \A d \in 1..Len(translated.defs) :
              \A p \in TypesBeforeAndAfter(translated.defs[d], resolved.defs[d]) :
                  (/\ ElementType(p[1]).k = "RefId"
                   /\ p[1] # WhichFieldType
                   /\ \E i \in 1..Len(cgr.nodes) : cgr.nodes[i].id = ElementType(p[1]).id) =>
                      /\ ElementType(p[2]).k = "RefName"
                      /\ ElementType(p[2]).fqn \in FqnsOfNode(ElementType(p[1]).id)

(***************************************************************************)
(* The prefix length of the display name of a File node.                   *)
(***************************************************************************)
\* the File nodes of the request
FileNodes == SelectSeq(cgr.nodes, LAMBDA n : n.which.k = "File")

\* C30: for a request with unique node ids, building the translation context
\* completes for every display_name_prefix_length of a File node from 0 to
\* the length of its display_name, the length 0 of a path without a
\* directory included, and the File node gets a name that is made of a part
\* of its display name.
C30_ContextBuiltForEveryPrefixLength ==
    (/\ pc # "translate"
     /\ \A i, j \in 1..Len(cgr.nodes) : cgr.nodes[i].id = cgr.nodes[j].id => i = j
     /\ \A i \in 1..Len(FileNodes) :
           FileNodes[i].display_name_prefix_length \in 0..Len(FileNodes[i].display_name)) =>
        LET built == build_translation_context_from_cgr(TranslationContext_new, cgr.nodes, 1)
        IN /\ built.ok
           /\ \A i \in 1..Len(FileNodes) :
                 /\ FileNodes[i].id \in DOMAIN built.v.names
                 /\ \E a \in 1..(Len(FileNodes[i].display_name) + 1) :
                       \E b \in 0..Len(FileNodes[i].display_name) :
                           built.v.names[FileNodes[i].id] =
                               Name_from(SubSeq(FileNodes[i].display_name, a, b))

====
